---- MODULE Spec2Model ----
(***************************************************************************)
(* pbmetric: attribution of lines of code to author emails (git.rs), the   *)
(* merge of these counts and of the tracker statistics (issue.rs) into the *)
(* report (report.rs), and the GitHub queries (github.rs).                 *)
(*                                                                         *)
(* Text is modelled as a sequence of byte-sized tokens.  A token stands    *)
(* for one ASCII character ("(", "<", ">", ")", " "), for one fixed-width  *)
(* ASCII field that the code never looks inside (a date "D010", a time     *)
(* "T12", an offset "Z+12", a hash "h", a line number "1", content "x",    *)
(* an email character "a"/"b"), or for one byte of a two-byte UTF-8        *)
(* character ("E1" lead byte, "E2" continuation byte).  Offsets are        *)
(* 0-based as in Rust, slices are half-open.                               *)
(* Instants are counted in hours.                                          *)
(***************************************************************************)
EXTENDS Integers, Sequences, FiniteSets, TLC

VARIABLES
    since,          \* parse_blame / blame_stats argument
    asof,           \* parse_blame / blame_stats argument
    blame,          \* parse_blame: the lines of `blame.split('\n')`
    line_idx,       \* parse_blame: number of lines consumed by the loop
    loc,            \* parse_blame: HashMap email -> count
    parse_pc,       \* parse_blame: "idle", "loop", "returned", "panicked"
    pc,             \* position of the run (report.rs / git.rs)
    epoch,          \* agenda argument: Option<DateTime<Utc>>
    email_map,      \* agenda argument: email -> username
    repo_idx,       \* repo_loc: number of repositories merged so far
    total_loc,      \* repo_loc: HashMap email -> count of the run
    cwd,            \* the process's current working directory
    exclude,        \* blame_stats: the compiled RegexSet
    bs_total_loc,   \* blame_stats: HashMap email -> count of the repository
    walked,         \* blame_stats: the entries WalkDir has yielded
    blamed,         \* blame_stats: the paths handed to blame()
    pathstr,        \* blame_stats: the path being blamed
    ret,            \* blame_stats: the value returned to repo_loc
    file_locs,      \* history: per repository, the maps parse_blame returned
    stats,          \* agenda: BTreeMap username -> IndividualStats
    out,            \* print_unknown_emails: what was written to `out`
    issues,         \* agenda: the issues the tracker returned
    merge_requests, \* agenda: the merged merge requests the tracker returned
    usernames,      \* agenda argument: gitlab_conf.usernames
    printed,        \* agenda: the entries handed to print_individual_stat
    recent_since,   \* recent_issues_per_login argument
    gh_items,       \* recent_issues_per_login: what the queries will yield
    gh_idx,         \* recent_issues_per_login: number of items consumed
    counter,        \* recent_issues_per_login: HashMap login -> 5-tuple
    gh_pc,          \* recent_issues_per_login: "idle", "loop", "returned", "err", "panicked"
    st_items,       \* assigned_stale_issues: what the queries will yield
    st_idx,         \* assigned_stale_issues: number of items consumed
    st_repo,        \* assigned_stale_issues: index of `repo` in repos
    st_issues,      \* assigned_stale_issues: the Vec<Issue> `issues`
    st_pc,          \* assigned_stale_issues: "idle", "loop", "returned", "err", "panicked"
    pr_items,       \* merged_pull_requests_per_login: what the queries will yield
    pr_idx,         \* merged_pull_requests_per_login: number of items consumed
    prs,            \* merged_pull_requests_per_login: HashMap login -> (usize, i64)
    pr_pc,          \* merged_pull_requests_per_login: "idle", "loop", "returned", "err", "panicked"
    now,            \* stale_issues: the value of Utc::now()
    sl_issues,      \* stale_issues: the argument `issues`
    sl_idx,         \* stale_issues: number of issues consumed
    projects,       \* stale_issues: the keys of the HashMap `projects`
    sl_stale,       \* stale_issues: the Vec `stale_issues`
    sl_pc,          \* stale_issues and the rendering of its result
    due_issues,     \* issue_due_cmp: the issues compared
    due_order,      \* issue_due_cmp: the Ordering of every pair
    due_sorted,     \* agenda: `issues` after sort_by(issue_due_cmp)
    due_pc          \* issue_due_cmp: "idle", "compare", "sort", "done"

parsevars == <<blame, line_idx, loc, parse_pc>>
statvars == <<issues, merge_requests, usernames, printed>>
ghvars == <<recent_since, gh_items, gh_idx, counter, gh_pc>>
stalevars == <<st_items, st_idx, st_repo, st_issues, st_pc>>
pullvars == <<pr_items, pr_idx, prs, pr_pc>>
githubvars == <<ghvars, stalevars, pullvars>>
slvars == <<now, sl_issues, sl_idx, projects, sl_stale, sl_pc>>
duevars == <<due_issues, due_order, due_sorted, due_pc>>
gitlabvars == <<slvars, duevars>>
runvars == <<pc, epoch, email_map, repo_idx, total_loc, cwd, exclude,
             bs_total_loc, walked, blamed, pathstr, ret, file_locs, stats, out,
             statvars, githubvars, gitlabvars>>
vars == <<since, asof, parsevars, runvars>>

-----------------------------------------------------------------------------
(* Bounds *)

\* Largest number of lines in one blame text handed to parse_blame alone.
MaxLines == 2

-----------------------------------------------------------------------------
(* Byte strings *)

None == -1

\* &s[from..to]; the caller checks SliceOk first (Rust panics otherwise).
Slice(s, from, to) == [i \in 1..(to - from) |-> s[from + i]]

\* str::is_char_boundary
IsCharBoundary(s, i) ==
    \/ i = 0
    \/ i = Len(s)
    \/ (i > 0 /\ i < Len(s) /\ s[i + 1] # "E2")

\* The conditions under which &s[from..to] does not panic.
SliceOk(s, from, to) ==
    /\ from <= to
    /\ to <= Len(s)
    /\ IsCharBoundary(s, from)
    /\ IsCharBoundary(s, to)

\* str::find(pat): offset of the first occurrence, or None.
Find(s, pat) ==
    LET hits == {i \in 0..(Len(s) - Len(pat)) :
                    \A j \in 1..Len(pat) : s[i + j] = pat[j]}
    IN  IF hits = {} THEN None
        ELSE CHOOSE i \in hits : \A k \in hits : i <= k

\* str::rfind(pat): offset of the last occurrence, or None.
RFind(s, pat) ==
    LET hits == {i \in 0..(Len(s) - Len(pat)) :
                    \A j \in 1..Len(pat) : s[i + j] = pat[j]}
    IN  IF hits = {} THEN None
        ELSE CHOOSE i \in hits : \A k \in hits : i >= k

\* str::trim(): drop leading and trailing whitespace.
Trim(s) ==
    LET nonsp == {i \in 1..Len(s) : s[i] # " "}
    IN  IF nonsp = {} THEN <<>>
        ELSE LET lo == CHOOSE i \in nonsp : \A k \in nonsp : i <= k
                 hi == CHOOSE i \in nonsp : \A k \in nonsp : i >= k
             IN  [i \in 1..(hi - lo + 1) |-> s[lo + i - 1]]

-----------------------------------------------------------------------------
(* Timestamps: DateTime::parse_from_str(.., "%F %T %z") *)

DateTok == {"D009", "D010", "D098", "D099", "D100"}
TimeTok == {"T00", "T12"}
ZoneTok == {"Z-12", "Z+00", "Z+12"}

\* %F: the day number of the date field.
DateVal(d) ==
    CASE d = "D009" -> 9
      [] d = "D010" -> 10
      [] d = "D098" -> 98
      [] d = "D099" -> 99
      [] d = "D100" -> 100

\* %T: the hour of the time field.
TimeVal(t) == IF t = "T12" THEN 12 ELSE 0

\* %z: the offset from UTC, in hours, of the zone field.
ZoneVal(z) ==
    CASE z = "Z-12" -> -12
      [] z = "Z+00" -> 0
      [] z = "Z+12" -> 12

\* A whitespace item of the format consumes any run of whitespace.
SkipSpace(s) ==
    LET nonsp == {i \in 1..Len(s) : s[i] # " "}
    IN  IF nonsp = {} THEN <<>>
        ELSE LET lo == CHOOSE i \in nonsp : \A k \in nonsp : i <= k
             IN  [i \in 1..(Len(s) - lo + 1) |-> s[lo + i - 1]]

\* The parsed DateTime<FixedOffset>: local wall-clock hours and offset;
\* ok = FALSE stands for Err(ParseError).
ParseFromStr(s) ==
    LET bad == [ok |-> FALSE, local |-> 0, offset |-> 0]
    IN  IF s = <<>> \/ s[1] \notin DateTok THEN bad
        ELSE LET s2 == SkipSpace(Tail(s))
             IN  IF s2 = <<>> \/ s2[1] \notin TimeTok THEN bad
                 ELSE LET s3 == SkipSpace(Tail(s2))
                      IN  IF Len(s3) # 1 \/ s3[1] \notin ZoneTok THEN bad
                          ELSE [ok     |-> TRUE,
                                local  |-> 24 * DateVal(s[1]) + TimeVal(s2[1]),
                                offset |-> ZoneVal(s3[1])]

\* The instant (UTC hours) a DateTime<FixedOffset> denotes.
Instant(ts) == ts.local - ts.offset

\* DateTime<Utc>::with_timezone(tz): same instant, shown at offset tz.
WithTimezone(utc, tz) == [ok |-> TRUE, local |-> utc + tz, offset |-> tz]

\* DateTime < DateTime compares instants.
DtLess(x, y) == Instant(x) < Instant(y)

\* git.rs 146-150: the line is dropped when this holds.
OutsideWindow(timestamp, s, a) ==
    \/ DtLess(timestamp, WithTimezone(s, timestamp.offset))
    \/ DtLess(WithTimezone(a, timestamp.offset), timestamp)

-----------------------------------------------------------------------------
(* parse_blame, one line *)

Skip(why)   == [kind |-> "skip", why |-> why, email |-> <<>>]
Count(e)    == [kind |-> "count", why |-> "", email |-> e]
Panic       == [kind |-> "panic", why |-> "slice", email |-> <<>>]

\* git.rs 130-152, entered with the offsets of the email.
ParseAfterEmail(line, email_start, email_end, s, a) ==
    LET email == Slice(line, email_start, email_end)
        rest  == Slice(line, email_end + 1, Len(line))
        cur   == Find(rest, <<")">>)
    IN  IF cur = None THEN Skip("cannot find where blame info ends")
        ELSE
        LET cur2 == RFind(Slice(line, email_end + 1, cur + email_end + 1), <<" ">>)
        IN  IF cur2 = None THEN Skip("cannot find where timestamp ends")
            ELSE
            LET timestamp_end == cur2 + email_end + 1
                timestamp_str == Trim(Slice(line, email_end + 1, timestamp_end))
                timestamp     == ParseFromStr(timestamp_str)
            IN  IF ~timestamp.ok THEN Skip("invalid timestamp format")
                ELSE IF OutsideWindow(timestamp, s, a) THEN Skip("outside")
                ELSE Count(email)

\* git.rs 114-152: what the loop body does with one line.
ParseLine(line, s, a) ==
    IF line = <<>> THEN Skip("empty")
    ELSE
    LET cur == Find(line, <<"(", "<">>)
    IN  IF cur = None THEN Skip("cannot find where email address begins")
        ELSE
        LET email_start == cur + 2
        IN  IF ~SliceOk(line, email_start + 1, Len(line)) THEN Panic
            ELSE
            LET cur1 == Find(Slice(line, email_start + 1, Len(line)), <<">">>)
            IN  IF cur1 = None THEN Skip("cannot find where email address ends")
                ELSE ParseAfterEmail(line, email_start, cur1 + email_start + 1, s, a)

\* HashMap: entry(email).or_insert(0) += n
EmptyMap == [e \in {} |-> 0]

Get(m, k) == IF k \in DOMAIN m THEN m[k] ELSE 0

AddEntryOverwrite(m, k, n) ==
    [e \in (DOMAIN m) \cup {k} |-> IF e = k THEN n ELSE m[e]]

AddEntry(m, k, n) ==
    [e \in (DOMAIN m) \cup {k} |-> IF e = k THEN Get(m, k) + n ELSE m[e]]

\* parse_blame as a function: [panic, loc] after the lines of text.
RECURSIVE ParseBlameFrom(_, _, _, _)
ParseBlameFrom(text, acc, s, a) ==
    IF text = <<>> THEN [panic |-> FALSE, loc |-> acc]
    ELSE LET r == ParseLine(Head(text), s, a)
         IN  IF r.kind = "panic" THEN [panic |-> TRUE, loc |-> EmptyMap]
             ELSE ParseBlameFrom(Tail(text),
                                 IF r.kind = "count" THEN AddEntry(acc, r.email, 1)
                                 ELSE acc,
                                 s, a)

ParseBlame(text, s, a) == ParseBlameFrom(text, EmptyMap, s, a)

-----------------------------------------------------------------------------
(* Inputs of parse_blame *)

Emails == {<<"a">>, <<"b">>}

\* A line of `git blame -e --date=iso`.
BlameLine(email, d, t, z) ==
    <<"h", " ", "(", "<">> \o email \o
    <<">", " ", d, " ", t, " ", z, " ", "1", ")", " ", "x">>

WellFormedLines ==
    { BlameLine(<<"a">>, "D010", "T00", "Z+00"),   \* = since of the wide window
      BlameLine(<<"a">>, "D009", "T12", "Z-12"),   \* = since, local time earlier
      BlameLine(<<"b">>, "D099", "T00", "Z+00"),   \* inside
      BlameLine(<<"a">>, "D100", "T00", "Z+00"),   \* = asof
      BlameLine(<<"b">>, "D100", "T12", "Z+12"),   \* = asof, local time later
      BlameLine(<<"b">>, "D100", "T12", "Z+00"),   \* after asof
      BlameLine(<<"a">>, "D009", "T12", "Z+00"),   \* before since
      BlameLine(<<"a">>, "D098", "T00", "Z+00") }  \* = since of the narrow window

MalformedLines ==
    { <<>>,                                                   \* trailing empty line
      <<"h", " ", "x">>,                                      \* no "(<"
      <<"h", " ", "(", "<">>,                                 \* ends after "(<"
      <<"h", " ", "(", "<", "E1", "E2", ">", " ", "D099", " ", "T00", " ", "Z+00", " ", "1", ")">>,
      <<"h", " ", "(", "<", "a", " ", "x">>,                  \* no ">"
      <<"h", " ", "(", "<", ">", " ", "D099", " ", "T00", " ", "Z+00", " ", "1", ")">>,
      <<"h", " ", "(", "<", "a", ">", " ", "x", " ", "1", ")">>,        \* bad timestamp
      <<"h", " ", "(", "<", "a", ">", " ", "D099", " ", "T00", " ", "Z+00", ")">>,
      <<"h", " ", "(", "<", "a", ">", " ", "D099", " ", "T00", " ", "Z+00", " ", "1">>,
      <<"h", " ", "(", "<", "a", ">", ")">> }

LineSet == WellFormedLines \cup MalformedLines

RECURSIVE TextsUpTo(_)
TextsUpTo(n) ==
    IF n = 0 THEN {<<>>}
    ELSE LET shorter == TextsUpTo(n - 1)
         IN  shorter \cup {Append(t, l) : t \in shorter, l \in LineSet}

Windows == {[since |-> 240, asof |-> 2400], [since |-> 2352, asof |-> 2400]}

-----------------------------------------------------------------------------
(* Values of the run's variables before the run sets them *)

NoEpoch == [some |-> FALSE, v |-> 0]
OrigDir == 0
NoRet   == [tag |-> "none", kind |-> "", map |-> EmptyMap]
NoOut   == [written |-> FALSE, section |-> FALSE, lines |-> <<>>]

-----------------------------------------------------------------------------
(* parse_blame, the loop *)

\* git.rs 117-149 ending in `continue`
ParseSkip ==
    /\ parse_pc = "loop"
    /\ line_idx < Len(blame)
    /\ ParseLine(blame[line_idx + 1], since, asof).kind = "skip"
    /\ line_idx' = line_idx + 1
    /\ UNCHANGED <<since, asof, blame, loc, parse_pc, runvars>>

ParseCountTwice ==
    /\ parse_pc = "loop"
    /\ line_idx < Len(blame)
    /\ LET r == ParseLine(blame[line_idx + 1], since, asof)
       IN  /\ r.kind = "count"
           /\ loc' = AddEntry(loc, r.email, 2)
    /\ line_idx' = line_idx + 1
    /\ UNCHANGED <<since, asof, blame, parse_pc, runvars>>

\* git.rs 151-152
ParseCount ==
    /\ parse_pc = "loop"
    /\ line_idx < Len(blame)
    /\ LET r == ParseLine(blame[line_idx + 1], since, asof)
       IN  /\ r.kind = "count"
           /\ loc' = AddEntry(loc, r.email, 1)
    /\ line_idx' = line_idx + 1
    /\ UNCHANGED <<since, asof, blame, parse_pc, runvars>>

\* git.rs 123: the slice index is out of range or inside a character
ParsePanic ==
    /\ parse_pc = "loop"
    /\ line_idx < Len(blame)
    /\ ParseLine(blame[line_idx + 1], since, asof).kind = "panic"
    /\ parse_pc' = "panicked"
    /\ UNCHANGED <<since, asof, blame, line_idx, loc, runvars>>

\* git.rs 154
ParseReturn ==
    /\ parse_pc = "loop"
    /\ line_idx = Len(blame)
    /\ parse_pc' = "returned"
    /\ UNCHANGED <<since, asof, blame, line_idx, loc, runvars>>

\* merged_pull_requests_per_login is not running.
PullsIdle ==
    /\ pr_items = <<>>
    /\ pr_idx = 0
    /\ prs = EmptyMap
    /\ pr_pc = "idle"

\* stale_issues is not running.
StaleIssuesIdle ==
    /\ now = 0
    /\ sl_issues = <<>>
    /\ sl_idx = 0
    /\ projects = {}
    /\ sl_stale = <<>>
    /\ sl_pc = "idle"

\* issue_due_cmp is not running.
DueIdle ==
    /\ due_issues = <<>>
    /\ due_order = <<>>
    /\ due_sorted = <<>>
    /\ due_pc = "idle"

TrackersIdle == PullsIdle /\ StaleIssuesIdle /\ DueIdle

\* parse_blame called on its own with any text and any window (git.rs 111-112)
InitParse ==
    /\ \E w \in Windows : since = w.since /\ asof = w.asof
    /\ blame \in TextsUpTo(MaxLines)
    /\ line_idx = 0
    /\ loc = EmptyMap
    /\ parse_pc = "loop"
    /\ pc = "parse_blame"
    /\ epoch = NoEpoch
    /\ email_map = EmptyMap
    /\ repo_idx = 0
    /\ total_loc = EmptyMap
    /\ cwd = OrigDir
    /\ exclude = <<>>
    /\ bs_total_loc = EmptyMap
    /\ walked = {}
    /\ blamed = {}
    /\ pathstr = <<>>
    /\ ret = NoRet
    /\ file_locs = <<>>
    /\ stats = EmptyMap
    /\ out = NoOut
    /\ issues = <<>>
    /\ merge_requests = <<>>
    /\ usernames = {}
    /\ printed = <<>>
    /\ recent_since = 0
    /\ gh_items = <<>>
    /\ gh_idx = 0
    /\ counter = EmptyMap
    /\ gh_pc = "idle"
    /\ st_items = <<>>
    /\ st_idx = 0
    /\ st_repo = 0
    /\ st_issues = <<>>
    /\ st_pc = "idle"
    /\ TrackersIdle

NextParse == ParseSkip \/ ParseCount \/ ParsePanic \/ ParseReturn

SpecParse == InitParse /\ [][NextParse]_vars

-----------------------------------------------------------------------------
(* Bounds of the run *)

\* Largest number of repositories in the configuration.
MaxRepos == 2

\* Largest number of entries WalkDir yields for one repository.
MaxEntries == 2

-----------------------------------------------------------------------------
(* Regular expressions (regex::RegexSet) *)

\* A pattern is a set of alternatives; an alternative is a literal body,
\* anchored at the start (^) and/or at the end ($) of the haystack.
Alt(s, body, e) == [s |-> s, body |-> body, e |-> e]
Pattern(alts)   == [valid |-> TRUE, alts |-> alts]
InvalidPattern  == [valid |-> FALSE, alts |-> {}]

AltMatches(alt, hay) ==
    \E i \in 0..(Len(hay) - Len(alt.body)) :
        /\ \A j \in 1..Len(alt.body) : hay[i + j] = alt.body[j]
        /\ alt.s => i = 0
        /\ alt.e => i + Len(alt.body) = Len(hay)

\* report.rs 17-25
EXCLUDE_DEFAULT ==
    << Pattern({Alt(TRUE, <<".git", "/">>, FALSE)}),
       Pattern({Alt(TRUE, <<"Cargo.lock">>, TRUE),
                Alt(FALSE, <<"/", "Cargo.lock">>, TRUE)}),
       Pattern({Alt(FALSE, <<".dat">>, TRUE)}),
       Pattern({Alt(FALSE, <<".log">>, TRUE)}),
       Pattern({Alt(FALSE, <<".pcap">>, TRUE)}),
       Pattern({Alt(FALSE, <<".png">>, TRUE)}),
       Pattern({Alt(TRUE, <<"LICENSE">>, TRUE)}) >>

RegexSetOkAlways(patterns) == TRUE

\* RegexSet::new succeeds iff every pattern compiles.
RegexSetOk(patterns) == \A i \in 1..Len(patterns) : patterns[i].valid

\* RegexSet::is_match
IsMatch(set, hay) ==
    \E i \in 1..Len(set) : \E alt \in set[i].alts : AltMatches(alt, hay)

\* The values of Repo.exclude in the configuration: None, Some(["^vendor/"]),
\* Some(["("]) which is no regular expression.
RepoExcludes ==
    { <<>>,
      << Pattern({Alt(TRUE, <<"vendor", "/">>, FALSE)}) >>,
      << InvalidPattern >> }

-----------------------------------------------------------------------------
(* The entries WalkDir::new(".") yields *)

Entry(kind, path, utf8) == [kind |-> kind, path |-> path, utf8 |-> utf8]

RootLicense   == <<".", "/", "LICENSE">>
VendorLicense == <<".", "/", "vendor", "/", "LICENSE">>
MainRs        == <<".", "/", "src", "/", "main", ".rs">>

Entries ==
    { Entry("dir", <<".">>, TRUE),
      Entry("file", RootLicense, TRUE),
      Entry("file", VendorLicense, TRUE),
      Entry("file", MainRs, TRUE),
      Entry("symlink", <<".", "/", "link", ".rs">>, TRUE),
      Entry("file", <<".", "/", "E1">>, FALSE) }

\* git.rs 69-88: what the loop body does with an entry before blaming it.
\* go = "continue", "err" (return Err) or "blame" (with pathstr).
WalkOutcomeNoExclude(entry, set) ==
    IF entry.kind = "dir" \/ entry.kind = "symlink"
    THEN [go |-> "continue", pathstr |-> <<>>]
    ELSE IF ~entry.utf8 THEN [go |-> "err", pathstr |-> <<>>]
    ELSE IF Len(entry.path) < 2 THEN [go |-> "continue", pathstr |-> <<>>]
    ELSE [go |-> "blame", pathstr |-> Slice(entry.path, 2, Len(entry.path))]

WalkOutcomeNoStrip(entry, set) ==
    IF entry.kind = "dir" \/ entry.kind = "symlink"
    THEN [go |-> "continue", pathstr |-> <<>>]
    ELSE IF ~entry.utf8 THEN [go |-> "err", pathstr |-> <<>>]
    ELSE IF Len(entry.path) < 2 THEN [go |-> "continue", pathstr |-> <<>>]
    ELSE IF IsMatch(set, entry.path)
         THEN [go |-> "continue", pathstr |-> <<>>]
         ELSE [go |-> "blame", pathstr |-> Slice(entry.path, 2, Len(entry.path))]

WalkOutcome(entry, set) ==
    IF entry.kind = "dir" \/ entry.kind = "symlink"
    THEN [go |-> "continue", pathstr |-> <<>>]
    ELSE IF ~entry.utf8 THEN [go |-> "err", pathstr |-> <<>>]
    ELSE IF Len(entry.path) < 2 THEN [go |-> "continue", pathstr |-> <<>>]
    ELSE LET stripped == Slice(entry.path, 2, Len(entry.path))
         IN  IF IsMatch(set, stripped)
             THEN [go |-> "continue", pathstr |-> <<>>]
             ELSE [go |-> "blame", pathstr |-> stripped]

-----------------------------------------------------------------------------
(* Merging maps *)

\* `for (email, loc) in m { *acc.entry(email).or_insert(0) += loc }`,
\* the entries of m taken in the map's iteration order.
RECURSIVE MergeKeys(_, _, _)
MergeKeys(acc, m, keys) ==
    IF keys = {} THEN acc
    ELSE LET k == CHOOSE x \in keys : TRUE
         IN  MergeKeys(AddEntry(acc, k, m[k]), m, keys \ {k})

MergeKeepFirst(acc, m) ==
    [e \in (DOMAIN acc) \cup (DOMAIN m) |->
        IF e \in DOMAIN acc THEN acc[e] ELSE m[e]]

\* git.rs 91-94 and report.rs 194-197
Merge(acc, m) == MergeKeys(acc, m, DOMAIN m)

-----------------------------------------------------------------------------
(* The outputs of `git blame` in the run *)

LineA  == BlameLine(<<"a">>, "D099", "T00", "Z+00")
LineA2 == BlameLine(<<"a">>, "D010", "T00", "Z+00")
LineB  == BlameLine(<<"b">>, "D100", "T12", "Z+12")

RunTexts ==
    { << LineA, <<>> >>,
      << LineA, LineA2 >>,
      << LineA, <<"h", " ", "x">>, LineB >>,
      << <<"h", " ", "(", "<">> >> }

Ok(m)     == [tag |-> "Ok", kind |-> "", map |-> m]
Err(kind) == [tag |-> "Err", kind |-> kind, map |-> EmptyMap]

-----------------------------------------------------------------------------
(* agenda, report.rs 53-57 *)

QuarterHours == 2160

Max(x, y) == IF x >= y THEN x ELSE y

SinceMin(a, ep) ==
    LET quarter_ago == a - QuarterHours
    IN  IF ep.some /\ ep.v < quarter_ago THEN ep.v ELSE quarter_ago

Since(a, ep) ==
    LET quarter_ago == a - QuarterHours
    IN  IF ep.some THEN Max(ep.v, quarter_ago) ELSE quarter_ago

Epochs == { NoEpoch, [some |-> TRUE, v |-> 120], [some |-> TRUE, v |-> 2352] }

EmailMaps ==
    { EmptyMap,
      (<<"a">> :> "alice"),
      (<<"a">> :> "alice") @@ (<<"b">> :> "alice"),
      (<<"a">> :> "alice") @@ (<<"b">> :> "bob") }

-----------------------------------------------------------------------------
(* repo_loc and blame_stats *)

Init ==
    /\ asof = 2400
    /\ epoch \in Epochs
    /\ since = Since(asof, epoch)
    /\ email_map = EmptyMap
    /\ blame = <<>>
    /\ line_idx = 0
    /\ loc = EmptyMap
    /\ parse_pc = "idle"
    /\ pc = "repo_loc"
    /\ repo_idx = 0
    /\ total_loc = EmptyMap
    /\ cwd = OrigDir
    /\ exclude = <<>>
    /\ bs_total_loc = EmptyMap
    /\ walked = {}
    /\ blamed = {}
    /\ pathstr = <<>>
    /\ ret = NoRet
    /\ file_locs = <<>>
    /\ stats = EmptyMap
    /\ out = NoOut
    /\ issues = <<>>
    /\ merge_requests = <<>>
    /\ usernames = {}
    /\ printed = <<>>
    /\ recent_since = 0
    /\ gh_items = <<>>
    /\ gh_idx = 0
    /\ counter = EmptyMap
    /\ gh_pc = "idle"
    /\ st_items = <<>>
    /\ st_idx = 0
    /\ st_repo = 0
    /\ st_issues = <<>>
    /\ st_pc = "idle"
    /\ TrackersIdle

inputs == <<since, asof, epoch>>

\* report.rs 177-187 and git.rs 46-58: the next repository of the map; its
\* patterns are compiled and the process enters its directory.
BlameStatsEnter ==
    /\ pc = "repo_loc"
    /\ repo_idx < MaxRepos
    /\ \E repo_exclude \in RepoExcludes, chdir_ok \in BOOLEAN :
         LET patterns == EXCLUDE_DEFAULT \o repo_exclude
         IN  IF ~RegexSetOk(patterns)
             THEN /\ ret' = Err("InvalidInput")
                  /\ pc' = "bs_returned"
                  /\ UNCHANGED <<cwd, exclude>>
             ELSE IF ~chdir_ok
             THEN /\ ret' = Err("chdir")
                  /\ pc' = "bs_returned"
                  /\ exclude' = patterns
                  /\ UNCHANGED cwd
             ELSE /\ ret' = NoRet
                  /\ pc' = "walk"
                  /\ exclude' = patterns
                  /\ cwd' = repo_idx + 1
    /\ bs_total_loc' = EmptyMap
    /\ walked' = {}
    /\ blamed' = {}
    /\ pathstr' = <<>>
    /\ file_locs' = Append(file_locs, <<>>)
    /\ UNCHANGED <<inputs, githubvars, gitlabvars, statvars, email_map, parsevars, repo_idx, total_loc, stats, out>>

\* git.rs 59-68: the iterator yields an error.
WalkError ==
    /\ pc = "walk"
    /\ ret' = Err("cannot traverse repo")
    /\ pc' = "bs_returned"
    /\ UNCHANGED <<inputs, githubvars, gitlabvars, statvars, email_map, parsevars, repo_idx, total_loc, cwd, exclude,
                   bs_total_loc, walked, blamed, pathstr, file_locs, stats, out>>

\* git.rs 59-89: the iterator yields an entry.
WalkEntry ==
    /\ pc = "walk"
    /\ Cardinality(walked) < MaxEntries
    /\ \E entry \in Entries \ walked :
         LET o == WalkOutcome(entry, exclude)
         IN  /\ walked' = walked \cup {entry}
             /\ CASE o.go = "continue" ->
                       /\ UNCHANGED <<pc, ret, blamed, pathstr>>
                  [] o.go = "err" ->
                       /\ ret' = Err("invalid file name")
                       /\ pc' = "bs_returned"
                       /\ UNCHANGED <<blamed, pathstr>>
                  [] o.go = "blame" ->
                       /\ pathstr' = o.pathstr
                       /\ blamed' = blamed \cup {o.pathstr}
                       /\ pc' = "blame"
                       /\ UNCHANGED ret
    /\ UNCHANGED <<inputs, githubvars, gitlabvars, statvars, email_map, parsevars, repo_idx, total_loc, cwd, exclude,
                   bs_total_loc, file_locs, stats, out>>

BlameFailsIgnored ==
    /\ pc = "blame"
    /\ pc' = "walk"
    /\ UNCHANGED <<inputs, githubvars, gitlabvars, statvars, email_map, parsevars, repo_idx, total_loc, cwd, exclude,
                   bs_total_loc, walked, blamed, pathstr, ret, file_locs, stats, out>>

\* git.rs 90, 100-106: git blame fails; `?` returns the error.
BlameFails ==
    /\ pc = "blame"
    /\ ret' = Err("git operation failed")
    /\ pc' = "bs_returned"
    /\ UNCHANGED <<inputs, githubvars, gitlabvars, statvars, email_map, parsevars, repo_idx, total_loc, cwd, exclude,
                   bs_total_loc, walked, blamed, pathstr, file_locs, stats, out>>

\* git.rs 90-91, 100-113: git blame succeeds and parse_blame starts on it.
BlameOk ==
    /\ pc = "blame"
    /\ blame' \in RunTexts
    /\ line_idx' = 0
    /\ loc' = EmptyMap
    /\ parse_pc' = "loop"
    /\ pc' = "parse"
    /\ UNCHANGED <<inputs, githubvars, gitlabvars, statvars, email_map, repo_idx, total_loc, cwd, exclude,
                   bs_total_loc, walked, blamed, pathstr, ret, file_locs, stats, out>>

\* git.rs 91-94: the file's counts are added to the repository's.
MergeFile ==
    /\ pc = "parse"
    /\ parse_pc = "returned"
    /\ bs_total_loc' = Merge(bs_total_loc, loc)
    /\ file_locs' = [file_locs EXCEPT ![Len(file_locs)] = Append(@, loc)]
    /\ parse_pc' = "idle"
    /\ pc' = "walk"
    /\ UNCHANGED <<inputs, githubvars, gitlabvars, statvars, email_map, blame, line_idx, loc, repo_idx, total_loc, cwd, exclude,
                   walked, blamed, pathstr, ret, stats, out>>

\* git.rs 95-97: the iterator is exhausted; the directory is restored.
BlameStatsReturn ==
    /\ pc = "walk"
    /\ \E chdir_ok \in BOOLEAN :
         IF chdir_ok
         THEN /\ cwd' = OrigDir
              /\ ret' = Ok(bs_total_loc)
         ELSE /\ ret' = Err("chdir")
              /\ UNCHANGED cwd
    /\ pc' = "bs_returned"
    /\ UNCHANGED <<inputs, githubvars, gitlabvars, statvars, email_map, parsevars, repo_idx, total_loc, exclude,
                   bs_total_loc, walked, blamed, pathstr, file_locs, stats, out>>

\* report.rs 188, 194-198: the repository's counts are added to the run's.
\* The returned map is consumed and the locals of blame_stats and of
\* parse_blame are gone: their variables go back to their initial values.
RepoLocMerge ==
    /\ pc = "bs_returned"
    /\ ret.tag = "Ok"
    /\ total_loc' = Merge(total_loc, ret.map)
    /\ repo_idx' = repo_idx + 1
    /\ pc' = "repo_loc"
    /\ ret' = NoRet
    /\ exclude' = <<>>
    /\ bs_total_loc' = EmptyMap
    /\ walked' = {}
    /\ blamed' = {}
    /\ pathstr' = <<>>
    /\ blame' = <<>>
    /\ line_idx' = 0
    /\ loc' = EmptyMap
    /\ UNCHANGED <<inputs, githubvars, gitlabvars, statvars, email_map, parse_pc, cwd, file_locs, stats, out>>

\* report.rs 189-192: exit(1)
RepoLocExit ==
    /\ pc = "bs_returned"
    /\ ret.tag = "Err"
    /\ pc' = "exited"
    /\ UNCHANGED <<inputs, githubvars, gitlabvars, statvars, email_map, parsevars, repo_idx, total_loc, cwd, exclude,
                   bs_total_loc, walked, blamed, pathstr, ret, file_locs, stats, out>>

\* report.rs 199-200, 59: the map has no further repository.  agenda has not
\* looked at its argument email_map so far; its value shows from here on.
RepoLocReturn ==
    /\ pc = "repo_loc"
    /\ pc' = "agenda"
    /\ email_map' \in EmailMaps
    /\ UNCHANGED <<inputs, githubvars, gitlabvars, statvars, parsevars, repo_idx, total_loc, cwd, exclude,
                   bs_total_loc, walked, blamed, pathstr, ret, file_locs, stats, out>>

-----------------------------------------------------------------------------
(* Tracker data and individual_stats (issue.rs 250-298) *)

\* Largest number of issues the tracker returns.
MaxIssues == 2

\* Option<T>
NoneOpt    == [some |-> FALSE, v |-> 0]
SomeOpt(x) == [some |-> TRUE, v |-> x]

\* gitlab::Issue: the fields individual_stats reads.  assignees is
\* Option<Vec<User>>: `list` holds the usernames when `some`.
Issue(author, labels, created_at, closed_at, assignees) ==
    [author |-> author, labels |-> labels, created_at |-> created_at,
     closed_at |-> closed_at, assignees |-> assignees]

NoAssignees     == [some |-> FALSE, list |-> <<>>]
Assignees(list) == [some |-> TRUE, list |-> list]

\* gitlab::MergeRequest: the fields individual_stats reads.
MergeRequest(author, user_notes_count) ==
    [author |-> author, user_notes_count |-> user_notes_count]

\* IndividualStats::default()
DefaultStats ==
    [bugs_reported |-> 0, issues_completed |-> 0, issues_opened |-> 0,
     merged_merge_requests_opened |-> 0, merge_request_notes |-> 0,
     lines_contributed |-> 0]

\* `stats.entry(username).or_insert_with(IndividualStats::default)` followed
\* by `entry.field += n`
Bump(st, username, field, n) ==
    [u \in (DOMAIN st) \cup {username} |->
        IF u = username
        THEN [(IF u \in DOMAIN st THEN st[u] ELSE DefaultStats)
                  EXCEPT ![field] = @ + n]
        ELSE st[u]]

\* issue.rs 157-168
assignee_username(issue) ==
    IF issue.assignees.some /\ Len(issue.assignees.list) > 0
    THEN SomeOpt(issue.assignees.list[1])
    ELSE NoneOpt

\* issue.rs 266-288: the body of the loop over the issues
StatsOfIssue(st, issue, s) ==
    LET opened ==
            IF s < issue.created_at
            THEN IF "bug" \in issue.labels
                 THEN Bump(st, issue.author, "bugs_reported", 1)
                 ELSE Bump(st, issue.author, "issues_opened", 1)
            ELSE st
        assignee == assignee_username(issue)
    IN  IF issue.closed_at.some /\ s < issue.closed_at.v /\ assignee.some
        THEN Bump(opened, assignee.v, "issues_completed", 1)
        ELSE opened

\* issue.rs 265-289
RECURSIVE StatsOfIssues(_, _, _)
StatsOfIssues(st, iss, s) ==
    IF iss = <<>> THEN st
    ELSE StatsOfIssues(StatsOfIssue(st, Head(iss), s), Tail(iss), s)

\* issue.rs 290-296
RECURSIVE StatsOfMergeRequests(_, _)
StatsOfMergeRequests(st, mrs) ==
    IF mrs = <<>> THEN st
    ELSE LET mr == Head(mrs)
             one == Bump(st, mr.author, "merged_merge_requests_opened", 1)
         IN  StatsOfMergeRequests(
                 Bump(one, mr.author, "merge_request_notes", mr.user_notes_count),
                 Tail(mrs))

\* issue.rs 259-298
individual_stats(iss, mrs, s) ==
    StatsOfMergeRequests(StatsOfIssues(EmptyMap, iss, s), mrs)

\* The issues and merge requests of the trackers.
GitlabIssues ==
    { Issue("alice", {"bug"}, 300, NoneOpt, NoAssignees),
      Issue("bob", {}, 2360, SomeOpt(2370), Assignees(<<"carol", "alice">>)),
      Issue("carol", {"doc"}, 240, SomeOpt(240), Assignees(<<"bob">>)),
      Issue("bob", {"bug", "doc"}, 100, SomeOpt(300), Assignees(<<>>)) }

RECURSIVE IssuesUpTo(_)
IssuesUpTo(n) ==
    IF n = 0 THEN {<<>>}
    ELSE LET shorter == IssuesUpTo(n - 1)
         IN  shorter \cup {Append(l, i) : l \in shorter, i \in GitlabIssues}

MergeRequestLists ==
    { <<>>,
      << MergeRequest("carol", 3) >>,
      << MergeRequest("alice", 0), MergeRequest("alice", 2) >> }

\* The values of gitlab_conf.usernames.
UsernameSets == { {}, {"alice"}, {"alice", "bob", "carol"} }

\* The aggregated maps repo_loc can return.
TotalLocs ==
    { EmptyMap,
      (<<"a">> :> 2),
      (<<"a">> :> 1) @@ (<<"b">> :> 2) }

\* What the trackers return in the whole run.
RunTrackers ==
    { [issues |-> <<>>, merge_requests |-> <<>>,
       usernames |-> {"alice", "bob"}],
      [issues |-> << Issue("alice", {"bug"}, 2360, SomeOpt(2370),
                           Assignees(<<"bob">>)) >>,
       merge_requests |-> << MergeRequest("carol", 3) >>,
       usernames |-> {"alice"}] }

-----------------------------------------------------------------------------
(* agenda after the scan *)

\* report.rs 61-131: a tracker query fails and `?` returns the error.
AgendaTrackerError ==
    /\ pc = "agenda"
    /\ pc' = "agenda_err"
    /\ UNCHANGED <<inputs, githubvars, gitlabvars, statvars, email_map, parsevars, repo_idx, total_loc, cwd, exclude,
                   bs_total_loc, walked, blamed, pathstr, ret, file_locs, stats, out>>

\* report.rs 61-131: the tracker queries succeed.
AgendaQueries ==
    /\ pc = "agenda"
    /\ \E t \in RunTrackers :
         /\ issues' = t.issues
         /\ merge_requests' = t.merge_requests
         /\ usernames' = t.usernames
    /\ pc' = "individual_stats"
    /\ UNCHANGED <<inputs, githubvars, gitlabvars, email_map, parsevars, repo_idx, total_loc, cwd, exclude,
                   bs_total_loc, walked, blamed, pathstr, ret, file_locs, stats, out,
                   printed>>

\* report.rs 133-140
IndividualStatsStep ==
    /\ pc = "individual_stats"
    /\ stats' = individual_stats(issues, merge_requests, since)
    /\ pc' = "lines"
    /\ UNCHANGED <<inputs, githubvars, gitlabvars, statvars, email_map, parsevars, repo_idx, total_loc, cwd,
                   exclude, bs_total_loc, walked, blamed, pathstr, ret, file_locs, out>>

RECURSIVE LinesContributedOverwrite(_, _, _, _)
LinesContributedOverwrite(acc, tl, em, keys) ==
    IF keys = {} THEN acc
    ELSE LET email == CHOOSE x \in keys : TRUE
         IN  LinesContributedOverwrite(
                 IF email \in DOMAIN em
                 THEN [u \in (DOMAIN acc) \cup {em[email]} |->
                          IF u = em[email]
                          THEN [(IF u \in DOMAIN acc THEN acc[u] ELSE DefaultStats)
                                    EXCEPT !.lines_contributed = tl[email]]
                          ELSE acc[u]]
                 ELSE acc,
                 tl, em, keys \ {email})

RECURSIVE LinesContributedKnownOnly(_, _, _, _)
LinesContributedKnownOnly(acc, tl, em, keys) ==
    IF keys = {} THEN acc
    ELSE LET email == CHOOSE x \in keys : TRUE
         IN  LinesContributedKnownOnly(
                 IF email \in DOMAIN em /\ em[email] \in DOMAIN acc
                 THEN Bump(acc, em[email], "lines_contributed", tl[email])
                 ELSE acc,
                 tl, em, keys \ {email})

\* report.rs 141-150, over the entries `keys` of total_loc still to visit
RECURSIVE LinesContributed(_, _, _, _)
LinesContributed(acc, tl, em, keys) ==
    IF keys = {} THEN acc
    ELSE LET email == CHOOSE x \in keys : TRUE
         IN  LinesContributed(
                 IF email \in DOMAIN em
                 THEN Bump(acc, em[email], "lines_contributed", tl[email])
                 ELSE acc,
                 tl, em, keys \ {email})

\* report.rs 141-150
AgendaLines ==
    /\ pc = "lines"
    /\ stats' = LinesContributed(stats, total_loc, email_map, DOMAIN total_loc)
    /\ pc' = "print_stats"
    /\ UNCHANGED <<inputs, githubvars, gitlabvars, statvars, email_map, parsevars, repo_idx, total_loc, cwd,
                   exclude, bs_total_loc, walked, blamed, pathstr, ret, file_locs, out>>

\* The order of the usernames as String keys of the BTreeMap.
NameRank(u) ==
    CASE u = "alice" -> 1
      [] u = "bob"   -> 2
      [] u = "carol" -> 3

\* report.rs 151-156: the entries of stats in key order, those whose username
\* is not in gitlab_conf.usernames left out.
RECURSIVE PrintedStats(_, _, _)
PrintedStats(st, names, keys) ==
    IF keys = {} THEN <<>>
    ELSE LET u == CHOOSE x \in keys : \A y \in keys : NameRank(x) <= NameRank(y)
             rest == PrintedStats(st, names, keys \ {u})
         IN  IF u \notin names THEN rest
             ELSE <<[username |-> u, stats |-> st[u]]>> \o rest

\* report.rs 151-156
PrintStats ==
    /\ pc = "print_stats"
    /\ printed' = PrintedStats(stats, usernames, DOMAIN stats)
    /\ pc' = "print_unknown_emails"
    /\ UNCHANGED <<inputs, githubvars, gitlabvars, issues, merge_requests, usernames, email_map, parsevars,
                   repo_idx, total_loc, cwd, exclude, bs_total_loc, walked, blamed,
                   pathstr, ret, file_locs, stats, out>>

\* report.rs 318-324: the lines of buf, in the map's iteration order
RECURSIVE UnknownLinesNoFilter(_, _, _)
UnknownLinesNoFilter(tl, em, keys) ==
    IF keys = {} THEN <<>>
    ELSE LET email == CHOOSE x \in keys : TRUE
         IN  <<[email |-> email, loc |-> tl[email]]>>
             \o UnknownLinesNoFilter(tl, em, keys \ {email})

RECURSIVE UnknownLines(_, _, _)
UnknownLines(tl, em, keys) ==
    IF keys = {} THEN <<>>
    ELSE LET email == CHOOSE x \in keys : TRUE
             rest  == UnknownLines(tl, em, keys \ {email})
         IN  IF email \in DOMAIN em THEN rest
             ELSE <<[email |-> email, loc |-> tl[email]]>> \o rest

\* report.rs 157, 313-331
PrintUnknownEmails ==
    /\ pc = "print_unknown_emails"
    /\ LET buf == UnknownLines(total_loc, email_map, DOMAIN total_loc)
       IN  out' = [written |-> TRUE,
                   section |-> buf # <<>>,
                   lines   |-> buf]
    /\ pc' = "done"
    /\ UNCHANGED <<inputs, githubvars, gitlabvars, statvars, email_map, parsevars, repo_idx, total_loc, cwd, exclude,
                   bs_total_loc, walked, blamed, pathstr, ret, file_locs, stats>>

\* agenda from report.rs 133 on, with any result of the scan and the queries
InitStats ==
    /\ \E w \in Windows : since = w.since /\ asof = w.asof
    /\ epoch = NoEpoch
    /\ total_loc \in TotalLocs
    /\ email_map \in EmailMaps
    /\ issues \in IssuesUpTo(MaxIssues)
    /\ merge_requests \in MergeRequestLists
    /\ usernames \in UsernameSets
    /\ printed = <<>>
    /\ stats = EmptyMap
    /\ out = NoOut
    /\ pc = "individual_stats"
    /\ blame = <<>>
    /\ line_idx = 0
    /\ loc = EmptyMap
    /\ parse_pc = "idle"
    /\ repo_idx = 0
    /\ cwd = OrigDir
    /\ exclude = <<>>
    /\ bs_total_loc = EmptyMap
    /\ walked = {}
    /\ blamed = {}
    /\ pathstr = <<>>
    /\ ret = NoRet
    /\ file_locs = <<>>
    /\ recent_since = 0
    /\ gh_items = <<>>
    /\ gh_idx = 0
    /\ counter = EmptyMap
    /\ gh_pc = "idle"
    /\ st_items = <<>>
    /\ st_idx = 0
    /\ st_repo = 0
    /\ st_issues = <<>>
    /\ st_pc = "idle"
    /\ TrackersIdle

NextStats == IndividualStatsStep \/ AgendaLines \/ PrintStats \/ PrintUnknownEmails

SpecStats == InitStats /\ [][NextStats]_vars

Next ==
    \/ BlameStatsEnter
    \/ WalkError
    \/ WalkEntry
    \/ BlameFails
    \/ BlameOk
    \/ ParseSkip
    \/ ParseCount
    \/ ParsePanic
    \/ ParseReturn
    \/ MergeFile
    \/ BlameStatsReturn
    \/ RepoLocMerge
    \/ RepoLocExit
    \/ RepoLocReturn
    \/ AgendaTrackerError
    \/ AgendaQueries
    \/ IndividualStatsStep
    \/ AgendaLines
    \/ PrintStats
    \/ PrintUnknownEmails

Spec == Init /\ [][Next]_vars

-----------------------------------------------------------------------------
(* GitHub queries (github.rs) *)

\* Largest number of items (nodes, repository changes) the queries yield.
MaxNodes == 3

\* An RFC 3339 timestamp "<date>T<time><offset>" as its three fields.
Rfc(d, t, z) == <<d, t, z>>

\* chrono::DateTime::parse_from_rfc3339: the DateTime<FixedOffset>, or
\* ok = FALSE for Err(ParseError).
ParseFromRfc3339(str) ==
    IF /\ Len(str) = 3
       /\ str[1] \in DateTok
       /\ str[2] \in TimeTok
       /\ str[3] \in ZoneTok
    THEN [ok     |-> TRUE,
          local  |-> 24 * DateVal(str[1]) + TimeVal(str[2]),
          offset |-> ZoneVal(str[3])]
    ELSE [ok |-> FALSE, local |-> 0, offset |-> 0]

\* What the loop over the repositories meets besides nodes:
\*   NullNode      a `null` entry of `nodes`
\*   NextRepo      the nodes of the response are exhausted and the response to
\*                 the query of the next repository has nodes (maybe none)
\*   RequestError  the next repository's name has no '/', or send() or json()
\*                 fails: `?` returns Err
\*   TokenMissing  self.token has no entry for the owner: the index panics
NullNode     == [kind |-> "null"]
NextRepo     == [kind |-> "next_repo"]
RequestError == [kind |-> "request_error"]
TokenMissing == [kind |-> "token_missing"]

RepoItems == {NullNode, NextRepo, RequestError, TokenMissing}

-----------------------------------------------------------------------------
(* f32 arithmetic.  A non-negative f32 value v >= 2^-3 or v = 0 is held as *)
(* the integer v * 2^26; an f32 has a significand of 24 bits.              *)

\* 1.0
One == 67108864

\* 2^24: integers below it have at most 24 significant bits.
SignificandLimit == 16777216

\* The spacing of the f32 values around x: 2^(bit length of x - 24).
RECURSIVE Spacing(_)
Spacing(x) == IF x < SignificandLimit THEN 1 ELSE 2 * Spacing(x \div 2)

\* Round to nearest f32, ties to even.
F32Round(x) ==
    LET q    == Spacing(x)
        down == x - (x % q)
        r    == x % q
    IN  IF 2 * r < q THEN down
        ELSE IF 2 * r > q THEN down + q
        ELSE IF (down \div q) % 2 = 0 THEN down ELSE down + q

\* x + y in f32
F32Add(x, y) == F32Round(x + y)

F32DivNoSplit(n) == One

\* 1.0 / n in f32, n an integer value 1.0, 2.0, ...: the quotient rounded to
\* nearest, ties to even.
F32Div(n) ==
    LET q    == Spacing(One \div n)
        down == q * (One \div (n * q))
        r    == One - n * down
    IN  IF 2 * r < n * q THEN down
        ELSE IF 2 * r > n * q THEN down + q
        ELSE IF (down \div q) % 2 = 0 THEN down ELSE down + q

-----------------------------------------------------------------------------
(* recent_issues_per_login (github.rs 181-266) *)

\* recent_issues::...Nodes: the fields the loop reads.  author is a login or
\* "null"; labels is NoLabels, LabelNodesNone or LabelNodes(names), a name
\* being "null" for a null node; assignees is NoAssignees or Assignees(logins),
\* a login being "null" for a null node.
NoLabels          == [some |-> FALSE, nodes_some |-> FALSE, names |-> <<>>]
LabelNodesNone    == [some |-> TRUE, nodes_some |-> FALSE, names |-> <<>>]
LabelNodes(names) == [some |-> TRUE, nodes_some |-> TRUE, names |-> names]

IssueNode(created_at, author, labels, closed_at, assignees) ==
    [kind |-> "node", created_at |-> created_at, author |-> author,
     labels |-> labels, closed_at |-> closed_at, assignees |-> assignees]

\* (0, 0, 0.0, 0, 0.0); stat.i is the component i + 1
ZeroStat == <<0, 0, 0, 0, 0>>

StatGet(c, login) == IF login \in DOMAIN c THEN c[login] ELSE ZeroStat

\* `counter.entry(login).or_insert((0, 0, 0.0, 0, 0.0))` followed by writes
StatPut(c, login, stat) ==
    [l \in (DOMAIN c) \cup {login} |-> IF l = login THEN stat ELSE c[l]]

\* github.rs 220-222
IsBug(names) == \E i \in 1..Len(names) : names[i] = "bug"

\* github.rs 213-235: entered with the parsed created_at
CountOpened(c, node, created_at, s, rs) ==
    IF ~(s <= Instant(created_at)) THEN c
    ELSE
    LET author == IF node.author = "null" THEN "unknown" ELSE node.author
        stat   == StatGet(c, author)
        stat1  == IF node.labels.some
                  THEN IF node.labels.nodes_some
                       THEN IF IsBug(node.labels.names)
                            THEN [stat EXCEPT ![2] = @ + 1]
                            ELSE stat
                       ELSE [stat EXCEPT ![1] = @ + 1]
                  ELSE [stat EXCEPT ![1] = @ + 1]
        stat2  == IF rs < Instant(created_at)
                  THEN [stat1 EXCEPT ![4] = @ + 1]
                  ELSE stat1
    IN  StatPut(c, author, stat2)

\* github.rs 239-244
TotalAssignees(logins) == Cardinality({i \in 1..Len(logins) : logins[i] # "null"})

RECURSIVE CreditAssigneesSwapped(_, _, _, _, _)
CreditAssigneesSwapped(c, logins, total_assignees, closed_at, rs) ==
    IF logins = <<>> THEN c
    ELSE IF Head(logins) = "null"
    THEN CreditAssigneesSwapped(c, Tail(logins), total_assignees, closed_at, rs)
    ELSE
    LET stat  == StatGet(c, Head(logins))
        stat1 == [stat EXCEPT ![5] = F32Add(@, F32Div(total_assignees))]
        stat2 == IF rs < Instant(closed_at)
                 THEN [stat1 EXCEPT ![3] = F32Add(@, F32Div(total_assignees))]
                 ELSE stat1
    IN  CreditAssigneesSwapped(StatPut(c, Head(logins), stat2), Tail(logins),
                               total_assignees, closed_at, rs)

\* github.rs 245-258: the loop over the assignee nodes still to visit
RECURSIVE CreditAssignees(_, _, _, _, _)
CreditAssignees(c, logins, total_assignees, closed_at, rs) ==
    IF logins = <<>> THEN c
    ELSE IF Head(logins) = "null"
    THEN CreditAssignees(c, Tail(logins), total_assignees, closed_at, rs)
    ELSE
    LET stat  == StatGet(c, Head(logins))
        stat1 == [stat EXCEPT ![3] = F32Add(@, F32Div(total_assignees))]
        stat2 == IF rs < Instant(closed_at)
                 THEN [stat1 EXCEPT ![5] = F32Add(@, F32Div(total_assignees))]
                 ELSE stat1
    IN  CreditAssignees(StatPut(c, Head(logins), stat2), Tail(logins),
                        total_assignees, closed_at, rs)

\* github.rs 236-260: entered with the parsed closed_at
CountClosed(c, node, closed_at, rs) ==
    IF node.assignees.some
    THEN CreditAssignees(c, node.assignees.list,
                         TotalAssignees(node.assignees.list), closed_at, rs)
    ELSE c

Bug == <<"bug">>

\* The nodes of the responses.  since = day 10, 00:00 UTC; recent_since =
\* day 98, 00:00 UTC.
IssueNodes ==
    { IssueNode(Rfc("D010", "T00", "Z+00"), "x", NoLabels, NoneOpt, NoAssignees),
      IssueNode(Rfc("D010", "T12", "Z+12"), "x", LabelNodes(Bug),
                SomeOpt(Rfc("D098", "T00", "Z+00")), Assignees(<<"x", "y", "z">>)),
      IssueNode(Rfc("D099", "T00", "Z+00"), "y", LabelNodes(<<>>),
                SomeOpt(Rfc("D099", "T00", "Z+00")), Assignees(<<"y", "null">>)),
      IssueNode(Rfc("D009", "T12", "Z+00"), "x", LabelNodes(Bug),
                SomeOpt(Rfc("D010", "T00", "Z+00")), Assignees(<<>>)),
      IssueNode(Rfc("D099", "T00", "Z+00"), "null", LabelNodes(<<"doc", "null">>),
                NoneOpt, Assignees(<<"x", "y">>)),
      IssueNode(Rfc("D010", "T00", "Z+00"), "y", LabelNodesNone,
                SomeOpt(Rfc("D099", "T00", "Z+00")), Assignees(<<"x", "y">>)),
      IssueNode(<<"x">>, "x", NoLabels, NoneOpt, NoAssignees),
      IssueNode(Rfc("D098", "T00", "Z+00"), "z", LabelNodes(<<"doc", "bug">>),
                SomeOpt(<<"x">>), Assignees(<<"z">>)) }

RECURSIVE ItemsUpTo(_, _)
ItemsUpTo(set, n) ==
    IF n = 0 THEN {<<>>}
    ELSE LET shorter == ItemsUpTo(set, n - 1)
         IN  shorter \cup {Append(l, i) : l \in shorter, i \in set}

\* github.rs 187-189, with no other function running
InitIssues ==
    /\ since = 240
    /\ asof = 2400
    /\ recent_since = 2352
    /\ gh_items \in ItemsUpTo(IssueNodes \cup RepoItems, MaxNodes)
    /\ gh_idx = 0
    /\ counter = EmptyMap
    /\ gh_pc = "loop"
    /\ st_items = <<>>
    /\ st_idx = 0
    /\ st_repo = 0
    /\ st_issues = <<>>
    /\ st_pc = "idle"
    /\ TrackersIdle
    /\ epoch = NoEpoch
    /\ email_map = EmptyMap
    /\ blame = <<>>
    /\ line_idx = 0
    /\ loc = EmptyMap
    /\ parse_pc = "idle"
    /\ pc = "recent_issues_per_login"
    /\ repo_idx = 0
    /\ total_loc = EmptyMap
    /\ cwd = OrigDir
    /\ exclude = <<>>
    /\ bs_total_loc = EmptyMap
    /\ walked = {}
    /\ blamed = {}
    /\ pathstr = <<>>
    /\ ret = NoRet
    /\ file_locs = <<>>
    /\ stats = EmptyMap
    /\ out = NoOut
    /\ issues = <<>>
    /\ merge_requests = <<>>
    /\ usernames = {}
    /\ printed = <<>>

\* github.rs 208-260: a node; a timestamp that does not parse returns Err
\* and the map is dropped with the frame.
GhNode ==
    /\ gh_pc = "loop"
    /\ gh_idx < Len(gh_items)
    /\ LET node == gh_items[gh_idx + 1]
       IN  /\ node.kind = "node"
           /\ LET created_at == ParseFromRfc3339(node.created_at)
              IN  IF ~created_at.ok
                  THEN /\ gh_pc' = "err"
                       /\ UNCHANGED <<gh_idx, counter>>
                  ELSE
                  LET c1 == CountOpened(counter, node, created_at, since, recent_since)
                  IN  IF ~node.closed_at.some
                      THEN /\ counter' = c1
                           /\ gh_idx' = gh_idx + 1
                           /\ UNCHANGED gh_pc
                      ELSE
                      LET closed_at == ParseFromRfc3339(node.closed_at.v)
                      IN  IF ~closed_at.ok
                          THEN /\ gh_pc' = "err"
                               /\ UNCHANGED <<gh_idx, counter>>
                          ELSE /\ counter' = CountClosed(c1, node, closed_at, recent_since)
                               /\ gh_idx' = gh_idx + 1
                               /\ UNCHANGED gh_pc
    /\ UNCHANGED <<inputs, parsevars, pc, email_map, repo_idx, total_loc, cwd, exclude,
                   bs_total_loc, walked, blamed, pathstr, ret, file_locs, stats, out,
                   statvars, pullvars, gitlabvars, recent_since, gh_items, stalevars>>

\* github.rs 208 (`flatten` drops a null node) and 190-207 (the next
\* repository's response)
GhSkip ==
    /\ gh_pc = "loop"
    /\ gh_idx < Len(gh_items)
    /\ gh_items[gh_idx + 1].kind \in {"null", "next_repo"}
    /\ gh_idx' = gh_idx + 1
    /\ UNCHANGED <<inputs, parsevars, pc, email_map, repo_idx, total_loc, cwd, exclude,
                   bs_total_loc, walked, blamed, pathstr, ret, file_locs, stats, out,
                   statvars, pullvars, gitlabvars, recent_since, gh_items, counter, gh_pc, stalevars>>

\* github.rs 191-193, 203, 205: `?` returns Err
GhRequestError ==
    /\ gh_pc = "loop"
    /\ gh_idx < Len(gh_items)
    /\ gh_items[gh_idx + 1].kind = "request_error"
    /\ gh_pc' = "err"
    /\ UNCHANGED <<inputs, parsevars, pc, email_map, repo_idx, total_loc, cwd, exclude,
                   bs_total_loc, walked, blamed, pathstr, ret, file_locs, stats, out,
                   statvars, pullvars, gitlabvars, recent_since, gh_items, gh_idx, counter, stalevars>>

\* github.rs 201: `self.token[owner]` panics
GhTokenMissing ==
    /\ gh_pc = "loop"
    /\ gh_idx < Len(gh_items)
    /\ gh_items[gh_idx + 1].kind = "token_missing"
    /\ gh_pc' = "panicked"
    /\ UNCHANGED <<inputs, parsevars, pc, email_map, repo_idx, total_loc, cwd, exclude,
                   bs_total_loc, walked, blamed, pathstr, ret, file_locs, stats, out,
                   statvars, pullvars, gitlabvars, recent_since, gh_items, gh_idx, counter, stalevars>>

\* github.rs 265
GhReturn ==
    /\ gh_pc = "loop"
    /\ gh_idx = Len(gh_items)
    /\ gh_pc' = "returned"
    /\ UNCHANGED <<inputs, parsevars, pc, email_map, repo_idx, total_loc, cwd, exclude,
                   bs_total_loc, walked, blamed, pathstr, ret, file_locs, stats, out,
                   statvars, pullvars, gitlabvars, recent_since, gh_items, gh_idx, counter, stalevars>>

NextIssues == GhNode \/ GhSkip \/ GhRequestError \/ GhTokenMissing \/ GhReturn

SpecIssues == InitIssues /\ [][NextIssues]_vars

-----------------------------------------------------------------------------
(* assigned_stale_issues (github.rs 57-111) *)

\* chrono::Duration::try_days(1), in hours
DayHours == 24

\* assigned_issues::...Nodes: the fields the loop reads.
StaleNode(number, title, updated_at, assignees) ==
    [kind |-> "node", number |-> number, title |-> title,
     updated_at |-> updated_at, assignees |-> assignees]

\* github.rs 97-102: the logins of the non-null assignee nodes
Logins(assignees) ==
    IF assignees.some
    THEN SelectSeq(assignees.list, LAMBDA l : l # "null")
    ELSE <<>>

StaleSkipAtBoundary(updated_at, a) == Instant(updated_at) >= a - DayHours

\* github.rs 88-93: the node is skipped when this holds.
StaleSkip(updated_at, a) == Instant(updated_at) > a - DayHours

\* The nodes of the responses.  asof = day 100, 00:00 UTC.
StaleNodes ==
    { StaleNode(1, "t1", Rfc("D099", "T00", "Z+00"), Assignees(<<"x", "null">>)),
      StaleNode(2, "t2", Rfc("D099", "T12", "Z+12"), NoAssignees),
      StaleNode(3, "t3", Rfc("D099", "T12", "Z+00"), Assignees(<<"y">>)),
      StaleNode(4, "t4", Rfc("D098", "T00", "Z+00"), Assignees(<<"y">>)),
      StaleNode(5, "t5", Rfc("D100", "T00", "Z+12"), Assignees(<<"x">>)),
      StaleNode(6, "t6", <<"x">>, Assignees(<<"x">>)) }

\* github.rs 62, with no other function running
InitStale ==
    /\ since = 240
    /\ asof = 2400
    /\ st_items \in ItemsUpTo(StaleNodes \cup RepoItems, MaxNodes)
    /\ st_idx = 0
    /\ st_repo = 1
    /\ st_issues = <<>>
    /\ st_pc = "loop"
    /\ TrackersIdle
    /\ recent_since = 0
    /\ gh_items = <<>>
    /\ gh_idx = 0
    /\ counter = EmptyMap
    /\ gh_pc = "idle"
    /\ epoch = NoEpoch
    /\ email_map = EmptyMap
    /\ blame = <<>>
    /\ line_idx = 0
    /\ loc = EmptyMap
    /\ parse_pc = "idle"
    /\ pc = "assigned_stale_issues"
    /\ repo_idx = 0
    /\ total_loc = EmptyMap
    /\ cwd = OrigDir
    /\ exclude = <<>>
    /\ bs_total_loc = EmptyMap
    /\ walked = {}
    /\ blamed = {}
    /\ pathstr = <<>>
    /\ ret = NoRet
    /\ file_locs = <<>>
    /\ stats = EmptyMap
    /\ out = NoOut
    /\ issues = <<>>
    /\ merge_requests = <<>>
    /\ usernames = {}
    /\ printed = <<>>

\* github.rs 82-104: a node
StaleNodeStep ==
    /\ st_pc = "loop"
    /\ st_idx < Len(st_items)
    /\ LET node == st_items[st_idx + 1]
       IN  /\ node.kind = "node"
           /\ LET updated_at == ParseFromRfc3339(node.updated_at)
              IN  IF ~updated_at.ok
                  THEN /\ st_pc' = "err"
                       /\ UNCHANGED <<st_idx, st_issues>>
                  ELSE IF StaleSkip(updated_at, asof)
                  THEN /\ st_idx' = st_idx + 1
                       /\ UNCHANGED <<st_pc, st_issues>>
                  ELSE /\ st_issues' = Append(st_issues,
                                          [title |-> node.title,
                                           number |-> node.number,
                                           repo |-> st_repo,
                                           assignees |-> Logins(node.assignees)])
                       /\ st_idx' = st_idx + 1
                       /\ UNCHANGED st_pc
    /\ UNCHANGED <<inputs, parsevars, pc, email_map, repo_idx, total_loc, cwd, exclude,
                   bs_total_loc, walked, blamed, pathstr, ret, file_locs, stats, out,
                   statvars, pullvars, gitlabvars, ghvars, st_items, st_repo>>

\* github.rs 83-85: a null node
StaleNullNode ==
    /\ st_pc = "loop"
    /\ st_idx < Len(st_items)
    /\ st_items[st_idx + 1].kind = "null"
    /\ st_idx' = st_idx + 1
    /\ UNCHANGED <<inputs, parsevars, pc, email_map, repo_idx, total_loc, cwd, exclude,
                   bs_total_loc, walked, blamed, pathstr, ret, file_locs, stats, out,
                   statvars, pullvars, gitlabvars, ghvars, st_items, st_repo, st_issues, st_pc>>

\* github.rs 63-81: the next repository's response
StaleNextRepo ==
    /\ st_pc = "loop"
    /\ st_idx < Len(st_items)
    /\ st_items[st_idx + 1].kind = "next_repo"
    /\ st_idx' = st_idx + 1
    /\ st_repo' = st_repo + 1
    /\ UNCHANGED <<inputs, parsevars, pc, email_map, repo_idx, total_loc, cwd, exclude,
                   bs_total_loc, walked, blamed, pathstr, ret, file_locs, stats, out,
                   statvars, pullvars, gitlabvars, ghvars, st_items, st_issues, st_pc>>

\* github.rs 64-66, 76, 78: `?` returns Err
StaleRequestError ==
    /\ st_pc = "loop"
    /\ st_idx < Len(st_items)
    /\ st_items[st_idx + 1].kind = "request_error"
    /\ st_pc' = "err"
    /\ UNCHANGED <<inputs, parsevars, pc, email_map, repo_idx, total_loc, cwd, exclude,
                   bs_total_loc, walked, blamed, pathstr, ret, file_locs, stats, out,
                   statvars, pullvars, gitlabvars, ghvars, st_items, st_idx, st_repo, st_issues>>

\* github.rs 74: `self.token[owner]` panics
StaleTokenMissing ==
    /\ st_pc = "loop"
    /\ st_idx < Len(st_items)
    /\ st_items[st_idx + 1].kind = "token_missing"
    /\ st_pc' = "panicked"
    /\ UNCHANGED <<inputs, parsevars, pc, email_map, repo_idx, total_loc, cwd, exclude,
                   bs_total_loc, walked, blamed, pathstr, ret, file_locs, stats, out,
                   statvars, pullvars, gitlabvars, ghvars, st_items, st_idx, st_repo, st_issues>>

\* github.rs 110
StaleReturn ==
    /\ st_pc = "loop"
    /\ st_idx = Len(st_items)
    /\ st_pc' = "returned"
    /\ UNCHANGED <<inputs, parsevars, pc, email_map, repo_idx, total_loc, cwd, exclude,
                   bs_total_loc, walked, blamed, pathstr, ret, file_locs, stats, out,
                   statvars, pullvars, gitlabvars, ghvars, st_items, st_idx, st_repo, st_issues>>

NextStale ==
    \/ StaleNodeStep
    \/ StaleNullNode
    \/ StaleNextRepo
    \/ StaleRequestError
    \/ StaleTokenMissing
    \/ StaleReturn

SpecStale == InitStale /\ [][NextStale]_vars

-----------------------------------------------------------------------------
(* GithubApi::merged_pull_requests_per_login (github.rs 327-372) *)

\* The scan of the repositories and the tracker tail of agenda are not
\* running.
ScanIdle ==
    /\ epoch = NoEpoch
    /\ email_map = EmptyMap
    /\ blame = <<>>
    /\ line_idx = 0
    /\ loc = EmptyMap
    /\ parse_pc = "idle"
    /\ repo_idx = 0
    /\ total_loc = EmptyMap
    /\ cwd = OrigDir
    /\ exclude = <<>>
    /\ bs_total_loc = EmptyMap
    /\ walked = {}
    /\ blamed = {}
    /\ pathstr = <<>>
    /\ ret = NoRet
    /\ file_locs = <<>>
    /\ stats = EmptyMap
    /\ out = NoOut
    /\ issues = <<>>
    /\ merge_requests = <<>>
    /\ usernames = {}
    /\ printed = <<>>

\* recent_issues_per_login and assigned_stale_issues are not running.
QueriesIdle ==
    /\ recent_since = 0
    /\ gh_items = <<>>
    /\ gh_idx = 0
    /\ counter = EmptyMap
    /\ gh_pc = "idle"
    /\ st_items = <<>>
    /\ st_idx = 0
    /\ st_repo = 0
    /\ st_issues = <<>>
    /\ st_pc = "idle"

\* merged_pull_requests::...Nodes: the fields the loop reads; author is a
\* login or "null".
PullNode(author, created_at, total_count) ==
    [kind |-> "node", author |-> author, created_at |-> created_at,
     total_count |-> total_count]

\* github.rs 363: prs.entry(login).or_insert((0, 0))
PrGet(m, login) == IF login \in DOMAIN m THEN m[login] ELSE <<0, 0>>

\* github.rs 363-365: the entry of login after the two additions
PrPut(m, login, total_count) ==
    [l \in DOMAIN m \cup {login} |->
        IF l = login
        THEN <<PrGet(m, login)[1] + 1, PrGet(m, login)[2] + total_count>>
        ELSE m[l]]

CreatedBeforeOrAt(created_at, s) == Instant(created_at) <= s

\* github.rs 360: the loop over the nodes is left when this holds.
CreatedBefore(created_at, s) == Instant(created_at) < s

\* github.rs 361: `break` leaves the nodes of this response: the position of
\* the last item before the next repository's response.
EndOfNodes(items, i) ==
    CHOOSE j \in i..Len(items) :
        /\ \A k \in (i + 1)..j : items[k].kind \in {"node", "null"}
        /\ j = Len(items) \/ items[j + 1].kind \notin {"node", "null"}

\* The nodes of the responses.  since = day 10, 00:00 UTC.
PullNodes ==
    { PullNode("x", Rfc("D099", "T00", "Z+00"), 2),
      PullNode("x", Rfc("D010", "T00", "Z+00"), 1),
      PullNode("y", Rfc("D010", "T12", "Z+12"), 3),
      PullNode("x", Rfc("D009", "T12", "Z+00"), 5),
      PullNode("null", Rfc("D099", "T00", "Z+00"), 7),
      PullNode("null", Rfc("D009", "T12", "Z+00"), 4),
      PullNode("y", <<"x">>, 1) }

\* github.rs 332, with no other function running
InitPulls ==
    /\ since = 240
    /\ asof = 2400
    /\ pr_items \in ItemsUpTo(PullNodes \cup RepoItems, MaxNodes)
    /\ pr_idx = 0
    /\ prs = EmptyMap
    /\ pr_pc = "loop"
    /\ pc = "merged_pull_requests_per_login"
    /\ ScanIdle
    /\ QueriesIdle
    /\ StaleIssuesIdle
    /\ DueIdle

\* github.rs 352-366: a node
PullNodeStep ==
    /\ pr_pc = "loop"
    /\ pr_idx < Len(pr_items)
    /\ LET node == pr_items[pr_idx + 1]
       IN  /\ node.kind = "node"
           /\ IF node.author = "null"
              THEN /\ pr_idx' = pr_idx + 1
                   /\ UNCHANGED <<prs, pr_pc>>
              ELSE LET created_at == ParseFromRfc3339(node.created_at)
                   IN  IF ~created_at.ok
                       THEN /\ pr_pc' = "err"
                            /\ UNCHANGED <<pr_idx, prs>>
                       ELSE IF CreatedBefore(created_at, since)
                       THEN /\ pr_idx' = EndOfNodes(pr_items, pr_idx + 1)
                            /\ UNCHANGED <<prs, pr_pc>>
                       ELSE /\ prs' = PrPut(prs, node.author, node.total_count)
                            /\ pr_idx' = pr_idx + 1
                            /\ UNCHANGED pr_pc
    /\ UNCHANGED <<inputs, parsevars, pc, email_map, repo_idx, total_loc, cwd, exclude,
                   bs_total_loc, walked, blamed, pathstr, ret, file_locs, stats, out,
                   statvars, ghvars, stalevars, gitlabvars, pr_items>>

\* github.rs 352: flatten() drops a null node
PullNullNode ==
    /\ pr_pc = "loop"
    /\ pr_idx < Len(pr_items)
    /\ pr_items[pr_idx + 1].kind = "null"
    /\ pr_idx' = pr_idx + 1
    /\ UNCHANGED <<inputs, parsevars, pc, email_map, repo_idx, total_loc, cwd, exclude,
                   bs_total_loc, walked, blamed, pathstr, ret, file_locs, stats, out,
                   statvars, ghvars, stalevars, gitlabvars, pr_items, prs, pr_pc>>

\* github.rs 333-351: the next repository's response
PullNextRepo ==
    /\ pr_pc = "loop"
    /\ pr_idx < Len(pr_items)
    /\ pr_items[pr_idx + 1].kind = "next_repo"
    /\ pr_idx' = pr_idx + 1
    /\ UNCHANGED <<inputs, parsevars, pc, email_map, repo_idx, total_loc, cwd, exclude,
                   bs_total_loc, walked, blamed, pathstr, ret, file_locs, stats, out,
                   statvars, ghvars, stalevars, gitlabvars, pr_items, prs, pr_pc>>

\* github.rs 334-336, 346, 348: `?` returns Err
PullRequestError ==
    /\ pr_pc = "loop"
    /\ pr_idx < Len(pr_items)
    /\ pr_items[pr_idx + 1].kind = "request_error"
    /\ pr_pc' = "err"
    /\ UNCHANGED <<inputs, parsevars, pc, email_map, repo_idx, total_loc, cwd, exclude,
                   bs_total_loc, walked, blamed, pathstr, ret, file_locs, stats, out,
                   statvars, ghvars, stalevars, gitlabvars, pr_items, pr_idx, prs>>

\* github.rs 344: `self.token[owner]` panics
PullTokenMissing ==
    /\ pr_pc = "loop"
    /\ pr_idx < Len(pr_items)
    /\ pr_items[pr_idx + 1].kind = "token_missing"
    /\ pr_pc' = "panicked"
    /\ UNCHANGED <<inputs, parsevars, pc, email_map, repo_idx, total_loc, cwd, exclude,
                   bs_total_loc, walked, blamed, pathstr, ret, file_locs, stats, out,
                   statvars, ghvars, stalevars, gitlabvars, pr_items, pr_idx, prs>>

\* github.rs 371
PullReturn ==
    /\ pr_pc = "loop"
    /\ pr_idx = Len(pr_items)
    /\ pr_pc' = "returned"
    /\ UNCHANGED <<inputs, parsevars, pc, email_map, repo_idx, total_loc, cwd, exclude,
                   bs_total_loc, walked, blamed, pathstr, ret, file_locs, stats, out,
                   statvars, ghvars, stalevars, gitlabvars, pr_items, pr_idx, prs>>

NextPulls ==
    \/ PullNodeStep
    \/ PullNullNode
    \/ PullNextRepo
    \/ PullRequestError
    \/ PullTokenMissing
    \/ PullReturn

SpecPulls == InitPulls /\ [][NextPulls]_vars

-----------------------------------------------------------------------------
(* stale_issues (issue.rs 132-155) and the rendering of its result *)
(* (issue.rs 38-48, report.rs 238-256)                             *)

\* gitlab::Issue: the fields stale_issues and the rendering read.
OpenedIssue(project_id, iid, updated_at, labels, assignees) ==
    [project_id |-> project_id, iid |-> iid, updated_at |-> updated_at,
     labels |-> labels, assignees |-> assignees]

\* issue.rs 140: the issue is skipped when this holds.
UpdatedInLastDay(issue, t) == issue.updated_at > t - DayHours

BlockedNever(issue) == FALSE

\* issue.rs 143
Blocked(issue) == "blocked" \in issue.labels

\* The open issues.  Utc::now() starts at day 100, 00:00 UTC.
OpenedIssues ==
    { OpenedIssue(1, 1, 2376, {}, Assignees(<<"x">>)),
      OpenedIssue(2, 2, 2377, {"bug"}, Assignees(<<"y">>)),
      OpenedIssue(1, 3, 2300, {"bug", "blocked"}, Assignees(<<"x">>)),
      OpenedIssue(2, 4, 2300, {}, NoAssignees),
      OpenedIssue(1, 5, 2300, {}, Assignees(<<>>)),
      OpenedIssue(3, 6, 2300, {}, Assignees(<<"x", "y">>)) }

\* The project ids of the open issues.
ProjectIds == {i.project_id : i \in OpenedIssues}

\* issue.rs 37, with no other function running; `projects` holds the
\* projects of the merge requests (issue.rs 14-26).
InitStaleIssues ==
    /\ since = 240
    /\ asof = 2400
    /\ now = 2400
    /\ sl_issues \in ItemsUpTo(OpenedIssues, MaxIssues)
    /\ sl_idx = 0
    /\ projects \in SUBSET ProjectIds
    /\ sl_stale = <<>>
    /\ sl_pc = "loop"
    /\ pc = "stale_issues"
    /\ ScanIdle
    /\ QueriesIdle
    /\ PullsIdle
    /\ DueIdle

\* issue.rs 139-153: one issue.  Utc::now() is read anew; api.project is
\* called before the entry is looked up, and its Err is returned.
StaleIssueStep ==
    /\ sl_pc = "loop"
    /\ sl_idx < Len(sl_issues)
    /\ \E t \in {now, now + 1}, project_ok \in BOOLEAN :
          LET issue == sl_issues[sl_idx + 1]
          IN  /\ now' = t
              /\ IF \/ UpdatedInLastDay(issue, t)
                    \/ Blocked(issue)
                    \/ ~assignee_username(issue).some
                 THEN /\ sl_idx' = sl_idx + 1
                      /\ UNCHANGED <<projects, sl_stale, sl_pc>>
                 ELSE IF ~project_ok
                 THEN /\ sl_pc' = "err"
                      /\ UNCHANGED <<sl_idx, projects, sl_stale>>
                 ELSE /\ projects' = projects \cup {issue.project_id}
                      /\ sl_stale' = Append(sl_stale, issue)
                      /\ sl_idx' = sl_idx + 1
                      /\ UNCHANGED sl_pc
    /\ UNCHANGED <<inputs, parsevars, pc, email_map, repo_idx, total_loc, cwd, exclude,
                   bs_total_loc, walked, blamed, pathstr, ret, file_locs, stats, out,
                   statvars, githubvars, duevars, sl_issues>>

\* issue.rs 154
StaleIssuesReturn ==
    /\ sl_pc = "loop"
    /\ sl_idx = Len(sl_issues)
    /\ sl_pc' = "returned"
    /\ UNCHANGED <<inputs, parsevars, pc, email_map, repo_idx, total_loc, cwd, exclude,
                   bs_total_loc, walked, blamed, pathstr, ret, file_locs, stats, out,
                   statvars, githubvars, duevars, sl_issues, now, sl_idx, projects, sl_stale>>

\* issue.rs 41-42, report.rs 245-246: the index panics on a missing project
\* and the unwrap on a missing assignee.
RenderPanics(issue, keys) ==
    \/ issue.project_id \notin keys
    \/ ~assignee_username(issue).some

\* issue.rs 38-48, report.rs 76-77 and 238-256: the section is written when
\* the list is not empty.
WriteIssuesSection ==
    /\ sl_pc = "returned"
    /\ sl_pc' = IF sl_stale = <<>> THEN "done"
                ELSE IF \E i \in 1..Len(sl_stale) : RenderPanics(sl_stale[i], projects)
                THEN "panicked"
                ELSE "rendered"
    /\ UNCHANGED <<inputs, parsevars, pc, email_map, repo_idx, total_loc, cwd, exclude,
                   bs_total_loc, walked, blamed, pathstr, ret, file_locs, stats, out,
                   statvars, githubvars, duevars, sl_issues, now, sl_idx, projects, sl_stale>>

NextStaleIssues ==
    \/ StaleIssueStep
    \/ StaleIssuesReturn
    \/ WriteIssuesSection

SpecStaleIssues == InitStaleIssues /\ [][NextStaleIssues]_vars

-----------------------------------------------------------------------------
(* issue_due_cmp (issue.rs 208-239) and the sort of agenda (issue.rs 35-36) *)

MaxDue == 3

\* gitlab::Issue: the fields issue_due_cmp reads.  due_date is an
\* Option<NaiveDate> (a day number), milestone an Option<Milestone> whose
\* due_date is an Option<NaiveDate>.
DueIssue(iid, due_date, milestone, updated_at) ==
    [iid |-> iid, due_date |-> due_date, milestone |-> milestone,
     updated_at |-> updated_at]

\* gitlab::Milestone: the field issue_due_date reads.
Milestone(due_date) == [due_date |-> due_date]

\* Ord::cmp on integers
Cmp(a, b) == IF a < b THEN "Less" ELSE IF a = b THEN "Equal" ELSE "Greater"

issue_due_date_own(issue) == issue.due_date

\* issue.rs 227-239
issue_due_date(issue) ==
    IF issue.due_date.some THEN SomeOpt(issue.due_date.v)
    ELSE IF issue.milestone.some
    THEN IF issue.milestone.v.due_date.some
         THEN SomeOpt(issue.milestone.v.due_date.v)
         ELSE NoneOpt
    ELSE NoneOpt

\* issue.rs 208-225
issue_due_cmp(lhs, rhs) ==
    IF issue_due_date(lhs).some
    THEN IF issue_due_date(rhs).some
         THEN LET order == Cmp(issue_due_date(lhs).v, issue_due_date(rhs).v)
              IN  IF order = "Equal"
                  THEN Cmp(lhs.updated_at, rhs.updated_at)
                  ELSE order
         ELSE "Less"
    ELSE IF issue_due_date(rhs).some
    THEN "Greater"
    ELSE Cmp(lhs.updated_at, rhs.updated_at)

\* slice::sort_by is stable: x goes behind every element that does not
\* compare Greater than x.
InsertBy(sorted, x) ==
    LET behind == {i \in 1..Len(sorted) : issue_due_cmp(sorted[i], x) = "Greater"}
        at == IF behind = {} THEN Len(sorted) + 1
              ELSE CHOOSE i \in behind : \A k \in behind : i <= k
    IN  [i \in 1..(Len(sorted) + 1) |->
            IF i < at THEN sorted[i]
            ELSE IF i = at THEN x
            ELSE sorted[i - 1]]

RECURSIVE SortBy(_)
\* issue.rs 36: issues.sort_by(issue_due_cmp)
SortBy(list) ==
    IF list = <<>> THEN <<>>
    ELSE InsertBy(SortBy(SubSeq(list, 1, Len(list) - 1)), list[Len(list)])

\* The open issues that are compared.
DueIssues ==
    { DueIssue(1, SomeOpt(5), NoneOpt, 10),
      DueIssue(2, NoneOpt, SomeOpt(Milestone(SomeOpt(5))), 20),
      DueIssue(3, SomeOpt(7), SomeOpt(Milestone(SomeOpt(3))), 10),
      DueIssue(4, NoneOpt, SomeOpt(Milestone(NoneOpt)), 10),
      DueIssue(5, NoneOpt, NoneOpt, 20),
      DueIssue(6, SomeOpt(5), NoneOpt, 20) }

\* issue.rs 35, with no other function running
InitDue ==
    /\ since = 240
    /\ asof = 2400
    /\ due_issues \in ItemsUpTo(DueIssues, MaxDue)
    /\ due_order = <<>>
    /\ due_sorted = <<>>
    /\ due_pc = "compare"
    /\ pc = "issue_due_cmp"
    /\ ScanIdle
    /\ QueriesIdle
    /\ PullsIdle
    /\ StaleIssuesIdle

\* issue.rs 208-225 applied to every pair of the issues
DueCompare ==
    /\ due_pc = "compare"
    /\ due_order' = [i \in 1..Len(due_issues) |->
                        [j \in 1..Len(due_issues) |->
                            issue_due_cmp(due_issues[i], due_issues[j])]]
    /\ due_pc' = "sort"
    /\ UNCHANGED <<inputs, parsevars, pc, email_map, repo_idx, total_loc, cwd, exclude,
                   bs_total_loc, walked, blamed, pathstr, ret, file_locs, stats, out,
                   statvars, githubvars, slvars, due_issues, due_sorted>>

\* issue.rs 36
DueSort ==
    /\ due_pc = "sort"
    /\ due_sorted' = SortBy(due_issues)
    /\ due_pc' = "done"
    /\ UNCHANGED <<inputs, parsevars, pc, email_map, repo_idx, total_loc, cwd, exclude,
                   bs_total_loc, walked, blamed, pathstr, ret, file_locs, stats, out,
                   statvars, githubvars, slvars, due_issues, due_order>>

NextDue ==
    \/ DueCompare
    \/ DueSort

SpecDue == InitDue /\ [][NextDue]_vars

-----------------------------------------------------------------------------
(* Claims about parse_blame, checked under SpecParse *)

\* The fields of a line laid out as git blame lays it out.
IsBlameLine(l, e, d, t, z) == l = BlameLine(e, d, t, z)

\* The instant, in UTC hours, that the fields d t z denote.
FieldInstant(d, t, z) == 24 * DateVal(d) + TimeVal(t) - ZoneVal(z)

\* The lines consumed so far are all laid out as git blame lays them out.
ConsumedWellFormed ==
    \A i \in 1..line_idx :
        \E e \in Emails, d \in DateTok, t \in TimeTok, z \in ZoneTok :
            IsBlameLine(blame[i], e, d, t, z)

\* The consumed lines of email e whose instant lies in [lo, hi].
LinesWithin(e, lo, hi) ==
    {i \in 1..line_idx :
        \E d \in DateTok, t \in TimeTok, z \in ZoneTok :
            /\ IsBlameLine(blame[i], e, d, t, z)
            /\ lo <= FieldInstant(d, t, z)
            /\ FieldInstant(d, t, z) <= hi}

\* C1: a well-formed blame line is counted for its email if and only if
\* since <= timestamp < asof, compared as instants whatever the line's UTC
\* offset: the count of an email is the number of its consumed lines in the
\* half-open window; a line at asof is not counted.
C1_HalfOpenWindow ==
    (parse_pc # "panicked" /\ ConsumedWellFormed) =>
        \A e \in Emails :
            Get(loc, e) = Cardinality(LinesWithin(e, since, asof - 1))

\* What the code does instead (not a claim; a check of the model): the
\* window is closed, a line at asof is counted.
ClosedWindowCounted ==
    (parse_pc # "panicked" /\ ConsumedWellFormed) =>
        \A e \in Emails :
            Get(loc, e) = Cardinality(LinesWithin(e, since, asof))

\* C2: parse_blame returns normally on every input text; it never panics.
C2_NeverPanics == parse_pc # "panicked"

\* The three kinds of malformed line that C3 names.
NoEmailBegin(l) == Find(l, <<"(", "<">>) = None

NoEmailEnd(l) ==
    /\ ~NoEmailBegin(l)
    /\ Find(Slice(l, Find(l, <<"(", "<">>) + 2, Len(l)), <<">">>) = None

BadTimestamp(l) ==
    /\ ~NoEmailBegin(l)
    /\ ~NoEmailEnd(l)
    /\ \A d \in DateTok, t \in TimeTok, z \in ZoneTok :
           Find(l, <<">", " ", d, " ", t, " ", z, " ">>) = None

NotMalformed(l) == ~(NoEmailBegin(l) \/ NoEmailEnd(l) \/ BadTimestamp(l))

\* C3: a malformed line leaves the counters unchanged and does not stop the
\* parse: the run on a block ends by returning, with the result of
\* parse_blame on the block without its malformed lines.
C3_MalformedLinesSkipped ==
    parse_pc \in {"returned", "panicked"} =>
        /\ parse_pc = "returned"
        /\ loc = ParseBlame(SelectSeq(blame, NotMalformed), since, asof).loc

\* What holds of C3 when no line panics (not a claim; a check of the model).
MalformedSkippedWhenReturned ==
    parse_pc = "returned" =>
        loc = ParseBlame(SelectSeq(blame, NotMalformed), since, asof).loc

\* The sum of the values of a map.
RECURSIVE SumKeys(_, _)
SumKeys(m, keys) ==
    IF keys = {} THEN 0
    ELSE LET k == CHOOSE x \in keys : TRUE
         IN  m[k] + SumKeys(m, keys \ {k})

SumOf(m) == SumKeys(m, DOMAIN m)

\* The consumed lines that are retained: laid out as git blame lays them
\* out, with an instant that the window test of git.rs 146-150 lets pass.
RetainedLines == UNION {LinesWithin(e, since, asof) : e \in Emails}

HasFields(l, e, d, t, z) ==
    LET head == <<"h", " ", "(", "<">> \o e
                \o <<">", " ", d, " ", t, " ", z, " ", "1", ")">>
    IN  /\ Len(l) >= Len(head)
        /\ SubSeq(l, 1, Len(head)) = head

\* The consumed lines whose text strictly between the first "(<" and the
\* first ">" after it is e, and that the window test lets pass.
LinesOfEmail(e) ==
    {i \in 1..line_idx :
        \E d \in DateTok, t \in TimeTok, z \in ZoneTok :
            /\ HasFields(blame[i], e, d, t, z)
            /\ since <= FieldInstant(d, t, z)
            /\ FieldInstant(d, t, z) <= asof}

\* C15: the email a line is attributed to is the text strictly between the
\* first "(<" and the first ">" that follows it, also when that text is
\* empty: every email, the empty one included, has as its count the number
\* of consumed lines that carry it between these markers.
C15_EmailBetweenMarkers ==
    parse_pc # "panicked" =>
        \A e \in Emails \cup {<<>>} :
            Get(loc, e) = Cardinality(LinesOfEmail(e))

-----------------------------------------------------------------------------
(* Claims about the scan and the report, checked under Spec *)

\* The repository-relative path of an entry: its path without "./".
RelPath(entry) == [i \in 1..(Len(entry.path) - 2) |-> entry.path[i + 2]]

\* blame_stats is between its entry and its return.
Scanning == pc \in {"walk", "blame", "parse", "bs_returned"}

\* C4: the blame operation, and so the parser, is never invoked for a
\* directory, a symbolic link or a file whose repository-relative path
\* matches an exclusion pattern: every path handed to blame is the path of
\* a walked regular file that the compiled patterns do not match.
C4_ExcludedNeverBlamed ==
    /\ \A p \in blamed :
          /\ \E e \in walked : e.kind = "file" /\ RelPath(e) = p
          /\ \A i \in 1..Len(exclude) : \A alt \in exclude[i].alts :
                 ~AltMatches(alt, p)
    /\ \A e \in walked :
          e.kind \in {"dir", "symlink"} => RelPath(e) \notin blamed
    /\ pc \in {"blame", "parse"} => pathstr \in blamed
    /\ parse_pc # "idle" => pathstr \in blamed

\* C4 witness: LICENSE was walked and skipped, src/main.rs was blamed and
\* parsed.
C4_Witness ==
    /\ pc = "parse"
    /\ parse_pc = "returned"
    /\ Entry("file", RootLicense, TRUE) \in walked
    /\ blamed = {RelPath(Entry("file", MainRs, TRUE))}

\* C5: patterns see the path without "./", so ^LICENSE$ matches at the
\* root only: LICENSE at the root is never blamed, and vendor/LICENSE is
\* blamed whenever the repository adds no pattern of its own.
C5_RootAnchoredLicense ==
    Scanning =>
        /\ <<"LICENSE">> \notin blamed
        /\ (Entry("file", VendorLicense, TRUE) \in walked
              /\ exclude = EXCLUDE_DEFAULT)
           => <<"vendor", "/", "LICENSE">> \in blamed

\* C5 witness: both files were walked under the default patterns.
C5_Witness ==
    /\ exclude = EXCLUDE_DEFAULT
    /\ walked = {Entry("file", RootLicense, TRUE), Entry("file", VendorLicense, TRUE)}
    /\ blamed = {<<"vendor", "/", "LICENSE">>}
    /\ pc = "bs_returned"
    /\ ret.tag = "Ok"

\* C6: when the scan of one repository fails (traversal error or blame
\* failure) the run goes on with the other repositories: the failure does
\* not terminate the process.
C6_ScanFailureTolerated ==
    ~(/\ pc = "exited"
      /\ ret.tag = "Err"
      /\ ret.kind \in {"cannot traverse repo", "git operation failed"})

\* The walked entries that blame_stats has to blame.
ToBlame ==
    {e \in walked : e.kind = "file" /\ ~IsMatch(exclude, RelPath(e))}

\* C7: blame_stats returns Ok only when every non-excluded file was blamed
\* successfully (each of them was blamed and its output parsed and added,
\* and no file name was invalid); an invalid file name gives Err, and an Err
\* carries no count map.
C7_OkOnlyWhenAllBlamed ==
    pc = "bs_returned" =>
        /\ ret.tag \in {"Ok", "Err"}
        /\ ret.tag = "Ok" =>
              /\ \A e \in walked : e.utf8
              /\ blamed = {RelPath(e) : e \in ToBlame}
              /\ Len(file_locs[Len(file_locs)]) = Cardinality(ToBlame)
              /\ ret.map = bs_total_loc
        /\ (\E e \in walked : e.kind = "file" /\ ~e.utf8) => ret.tag = "Err"
        /\ ret.tag = "Err" => ret.map = EmptyMap

\* C7 witness: Ok after two files were blamed.
C7_Witness ==
    /\ pc = "bs_returned"
    /\ ret.tag = "Ok"
    /\ Cardinality(blamed) = 2
    /\ DOMAIN ret.map = Emails

\* r is the elementwise sum of x and y over the union of their keys.
IsSumOf(r, x, y) ==
    /\ DOMAIN r = (DOMAIN x) \cup (DOMAIN y)
    /\ \A k \in DOMAIN r : r[k] = Get(x, k) + Get(y, k)

\* C8: merging a file's map into the repository total and a repository's
\* map into the run total is elementwise addition over the union of keys;
\* {a:5} merged with {a:3,b:2} gives {a:8,b:2}.
C8_MergeIsElementwiseSum ==
    [][ /\ (pc = "parse" /\ pc' = "walk")
            => IsSumOf(bs_total_loc', bs_total_loc, loc)
        /\ (pc = "bs_returned" /\ pc' = "repo_loc")
            => IsSumOf(total_loc', total_loc, ret.map)
        /\ Merge((<<"a">> :> 5), (<<"a">> :> 3) @@ (<<"b">> :> 2))
              = (<<"a">> :> 8) @@ (<<"b">> :> 2) ]_vars

\* C8 witness: {a:2} and {a:1,b:1} of two repositories were merged.
C8_Witness ==
    /\ pc = "repo_loc"
    /\ repo_idx = 2
    /\ file_locs[1] = << (<<"a">> :> 2) >>
    /\ total_loc = (<<"a">> :> 3) @@ (<<"b">> :> 1)

\* The sequence s in the order p (a permutation of its indices).
Permuted(s, p) == [i \in 1..Len(s) |-> s[p[i]]]

\* The maps of ms merged one after the other into an empty map.
RECURSIVE MergeAll(_)
MergeAll(ms) ==
    IF ms = <<>> THEN EmptyMap
    ELSE Merge(MergeAll(SubSeq(ms, 1, Len(ms) - 1)), ms[Len(ms)])

\* All maps that parse_blame returned in the run.
AllFileLocs ==
    UNION {{file_locs[i][j] : j \in 1..Len(file_locs[i])} : i \in 1..Len(file_locs)}

\* C9: the totals do not depend on the processing order: with all scans
\* succeeded, every order of the files of a repository gives the repository
\* the same map, every order of the repositories gives the run the total
\* that repo_loc returned, and merging is commutative and associative.
C9_OrderIndependent ==
    pc = "agenda" =>
        /\ \A i \in 1..Len(file_locs) :
              \A q \in Permutations(1..Len(file_locs[i])) :
                  MergeAll(Permuted(file_locs[i], q)) = MergeAll(file_locs[i])
        /\ \A p \in Permutations(1..Len(file_locs)) :
              MergeAll(Permuted([i \in 1..Len(file_locs) |-> MergeAll(file_locs[i])], p))
                 = total_loc
        /\ \A m1 \in AllFileLocs, m2 \in AllFileLocs :
              /\ Merge(m1, m2) = Merge(m2, m1)
              /\ \A m3 \in AllFileLocs :
                    Merge(Merge(m1, m2), m3) = Merge(m1, Merge(m2, m3))

\* C9 witness: two repositories with different maps on shared emails, one
\* of them with two files of different maps.
C9_Witness ==
    /\ pc = "agenda"
    /\ Len(file_locs) = 2
    /\ file_locs[1] = << (<<"a">> :> 2), (<<"a">> :> 1) @@ (<<"b">> :> 1) >>
    /\ file_locs[2] = << (<<"a">> :> 1) >>
    /\ total_loc = (<<"a">> :> 4) @@ (<<"b">> :> 1)

\* The lines of the unmapped-emails report that name email e.
ReportLinesOf(e) == {i \in 1..Len(out.lines) : out.lines[i].email = e}

\* C10: every email of the aggregated map without an entry in the email
\* map is in the unmapped-emails report once, with its aggregated count; no
\* email with an entry is in the report; the section is left out only when
\* no email is unmapped.
C10_UnmappedReported ==
    pc = "done" =>
        /\ out.written
        /\ \A e \in DOMAIN total_loc :
              IF e \in DOMAIN email_map
              THEN ReportLinesOf(e) = {}
              ELSE /\ Cardinality(ReportLinesOf(e)) = 1
                   /\ \A i \in ReportLinesOf(e) : out.lines[i].loc = total_loc[e]
        /\ \A i \in 1..Len(out.lines) : out.lines[i].email \in DOMAIN total_loc
        /\ out.section <=> (\E e \in DOMAIN total_loc : e \notin DOMAIN email_map)

\* C10 witness: a is mapped, b is not, and the report holds b's count.
C10_Witness ==
    /\ pc = "done"
    /\ email_map = (<<"a">> :> "alice")
    /\ total_loc = (<<"a">> :> 3) @@ (<<"b">> :> 1)
    /\ out.section
    /\ out.lines = << [email |-> <<"b">>, loc |-> 1] >>

-----------------------------------------------------------------------------
(* Claims about the window and the working directory, checked under Spec *)

\* The later of the epoch and asof - 90 days; asof - 90 days without epoch.
LaterOfEpochAndQuarter ==
    IF epoch.some /\ epoch.v > asof - QuarterHours
    THEN epoch.v
    ELSE asof - QuarterHours

\* C18: since is the later of the epoch and asof - 90 days (asof - 90 days
\* when no epoch is given), so the window from since to asof never spans
\* more than 90 days; and every source counts with this very pair: the map
\* parse_blame returns and the statistics individual_stats returns are the
\* ones of this window.
C18_SinceCapsWindow ==
    /\ since = LaterOfEpochAndQuarter
    /\ asof - since <= QuarterHours
    /\ parse_pc = "returned" =>
          loc = ParseBlame(blame, LaterOfEpochAndQuarter, asof).loc
    /\ pc = "lines" =>
          stats = individual_stats(issues, merge_requests, LaterOfEpochAndQuarter)

\* A run with an epoch later than asof - 90 days has counted a file whose
\* older line lies between asof - 90 days and the epoch.
C18_Witness ==
    /\ epoch.some
    /\ epoch.v > asof - QuarterHours
    /\ since = epoch.v
    /\ pc = "parse"
    /\ parse_pc = "returned"
    /\ blame = << LineA, LineA2 >>
    /\ loc = (<<"a">> :> 1)

\* C19: when blame_stats has returned, with Ok or with Err, the current
\* working directory is the one the process had when it was called.
C19_CwdRestoredOnReturn ==
    pc = "bs_returned" => cwd = OrigDir

\* C20: an exclusion pattern that is no regular expression makes blame_stats
\* return InvalidInput before any side effect: the directory is not changed,
\* no entry is enumerated and blame is invoked on no file; and no scan ever
\* runs with a pattern that did not compile.
C20_InvalidPatternNoSideEffect ==
    /\ (pc = "bs_returned" /\ ret.kind = "InvalidInput") =>
          /\ ret.tag = "Err"
          /\ cwd = OrigDir
          /\ walked = {}
          /\ blamed = {}
          /\ file_locs[Len(file_locs)] = <<>>
    /\ Scanning => \A i \in 1..Len(exclude) : exclude[i].valid

\* The second repository has an invalid pattern, after a first repository
\* that was scanned and merged.
C20_Witness ==
    /\ pc = "bs_returned"
    /\ ret = Err("InvalidInput")
    /\ repo_idx = 1
    /\ Len(file_locs) = 2
    /\ file_locs[1] # <<>>

-----------------------------------------------------------------------------
(* Claims about the per-person statistics, checked under SpecStats *)

\* The sum of loc over the lines of the unmapped report.
RECURSIVE SumLoc(_)
SumLoc(lines) ==
    IF lines = <<>> THEN 0 ELSE Head(lines).loc + SumLoc(Tail(lines))

\* The sum of lines_contributed over the statistics of the persons `keys`.
RECURSIVE SumLinesContributed(_, _)
SumLinesContributed(st, keys) ==
    IF keys = {} THEN 0
    ELSE LET u == CHOOSE x \in keys : TRUE
         IN  st[u].lines_contributed + SumLinesContributed(st, keys \ {u})

\* C11: the sum of lines_contributed over all per-person statistics plus the
\* sum of the line counts of the unmapped emails equals the grand total of
\* the aggregated map, also when several emails map to the same person.
C11_LinesAttributedOnce ==
    pc = "done" =>
        SumLinesContributed(stats, DOMAIN stats) + SumLoc(out.lines)
            = SumOf(total_loc)

\* Two emails with different counts map to the same person.
C11_Witness ==
    /\ pc = "done"
    /\ total_loc = (<<"a">> :> 1) @@ (<<"b">> :> 2)
    /\ email_map = (<<"a">> :> "alice") @@ (<<"b">> :> "alice")
    /\ stats["alice"].lines_contributed = 3
    /\ out.lines = <<>>

\* The persons the tracker counters name: the authors of the issues opened
\* in the window, the first assignee of the issues closed in it, the authors
\* of the merge requests.
NamedByTracker ==
    {issues[i].author : i \in {j \in 1..Len(issues) : since < issues[j].created_at}}
    \cup {issues[i].assignees.list[1] :
            i \in {j \in 1..Len(issues) :
                     /\ issues[j].closed_at.some
                     /\ since < issues[j].closed_at.v
                     /\ issues[j].assignees.some
                     /\ Len(issues[j].assignees.list) > 0}}
    \cup {merge_requests[i].author : i \in 1..Len(merge_requests)}

\* The persons a mapped email with line counts names.
NamedByLines ==
    {email_map[e] : e \in (DOMAIN total_loc) \cap (DOMAIN email_map)}

\* The positions of the printed entries of person u.
EntriesOf(u) == {i \in 1..Len(printed) : printed[i].username = u}

\* The counters of a source that does not name person u are zero in st.
ZeroElsewhere(u, st) ==
    /\ u \notin NamedByTracker =>
          /\ st.bugs_reported = 0
          /\ st.issues_completed = 0
          /\ st.issues_opened = 0
          /\ st.merged_merge_requests_opened = 0
          /\ st.merge_request_notes = 0
    /\ u \notin NamedByLines => st.lines_contributed = 0

-----------------------------------------------------------------------------
(* Claims about recent_issues_per_login, checked under SpecIssues *)

\* The positions of the nodes the loop has consumed.
ConsumedNodes == {i \in 1..gh_idx : gh_items[i].kind = "node"}

\* The non-null assignees of the node at position i.
AssigneesOf(i) ==
    IF gh_items[i].assignees.some
    THEN {gh_items[i].assignees.list[k] : k \in 1..Len(gh_items[i].assignees.list)}
             \ {"null"}
    ELSE {}

\* The consumed nodes that are closed and have at least one assignee.
ClosedWithAssignee ==
    {i \in ConsumedNodes : gh_items[i].closed_at.some /\ AssigneesOf(i) # {}}

\* The sum of the issues-completed credit (stat.2) over the logins `keys`.
RECURSIVE SumCompleted(_, _)
SumCompleted(c, keys) ==
    IF keys = {} THEN 0
    ELSE LET l == CHOOSE x \in keys : TRUE
         IN  c[l][3] + SumCompleted(c, keys \ {l})

\* A login that is assignee of no closed issue has no credit.
NoCreditWithoutClosedIssue ==
    \A l \in DOMAIN counter :
        (\A i \in ClosedWithAssignee : l \notin AssigneesOf(i)) =>
            counter[l][3] = 0 /\ counter[l][5] = 0

\* C14 as stated: the credit given for one closed issue with N >= 1
\* assignees sums to exactly 1 across logins, a closed issue without
\* assignee and an issue that is not closed credit no one: the credit of all
\* logins sums to the number of closed issues with an assignee.
C14_CreditSumsToExactlyOne ==
    /\ SumCompleted(counter, DOMAIN counter) = Cardinality(ClosedWithAssignee) * One
    /\ NoCreditWithoutClosedIssue

\* The spacing of the f32 values at 1.0 (f32::EPSILON).
Epsilon == (2 * One) \div SignificandLimit

Abs(x) == IF x < 0 THEN -x ELSE x

\* C14 amended: each assignee receives the f32 quotient 1.0 / N, so the
\* credit of all logins equals the number of closed issues with an assignee
\* up to f32 rounding (at most f32::EPSILON per issue), and exactly when every
\* N is 1 or 2; a closed issue without assignee and an issue that is not
\* closed credit no one.
C14_CreditSumsToOneRounded ==
    /\ Abs(SumCompleted(counter, DOMAIN counter)
             - Cardinality(ClosedWithAssignee) * One)
          <= Cardinality(ClosedWithAssignee) * Epsilon
    /\ (\A i \in ClosedWithAssignee : Cardinality(AssigneesOf(i)) \in {1, 2}) =>
          SumCompleted(counter, DOMAIN counter)
              = Cardinality(ClosedWithAssignee) * One
    /\ NoCreditWithoutClosedIssue

\* A closed issue with three assignees and an open issue with assignees have
\* been consumed; each of the three holds a credit that is not a third.
C14_Witness ==
    /\ gh_pc = "returned"
    /\ \E i \in ClosedWithAssignee :
          /\ Cardinality(AssigneesOf(i)) = 3
          /\ \A l \in AssigneesOf(i) : l \in DOMAIN counter /\ 3 * counter[l][3] # One
    /\ \E j \in ConsumedNodes :
          ~gh_items[j].closed_at.some /\ AssigneesOf(j) # {}
    /\ Cardinality(ClosedWithAssignee) = 1

\* The login an issue is counted for.
AuthorOf(i) ==
    IF gh_items[i].author = "null" THEN "unknown" ELSE gh_items[i].author

\* The consumed issues of a login that were created at or after since.
AuthoredSince(l) ==
    {i \in ConsumedNodes :
        /\ AuthorOf(i) = l
        /\ since <= Instant(ParseFromRfc3339(gh_items[i].created_at))}

HasBugLabel(i) ==
    /\ gh_items[i].labels.some
    /\ gh_items[i].labels.nodes_some
    /\ \E k \in 1..Len(gh_items[i].labels.names) : gh_items[i].labels.names[k] = "bug"

\* C16: every issue created at or after since is counted exactly once for
\* its author: in the bugs-reported counter (stat.1) when it carries the
\* label bug, otherwise in the non-bug counter (stat.0); for each login the
\* two counters sum to the number of such issues the login authored.
C16_OpenedCountedOnce ==
    \A l \in {"x", "y", "z", "unknown"} :
        /\ StatGet(counter, l)[2]
             = Cardinality({i \in AuthoredSince(l) : HasBugLabel(i)})
        /\ StatGet(counter, l)[1]
             = Cardinality({i \in AuthoredSince(l) : ~HasBugLabel(i)})
        /\ StatGet(counter, l)[1] + StatGet(counter, l)[2]
             = Cardinality(AuthoredSince(l))

\* C22: in the map of recent_issues_per_login, for every login the
\* recently-closed credit (stat.4, the 5th counter) never exceeds the
\* issues-completed credit (stat.2, the 3rd counter), and all five counters
\* are non-negative, after any sequence of issues of any repositories.
C22_RecentClosedWithinCompleted ==
    \A l \in DOMAIN counter :
        /\ counter[l][5] <= counter[l][3]
        /\ \A i \in 1..5 : counter[l][i] >= 0

\* The map is returned after issues of two repositories; one login has
\* credit for a recently closed issue and more credit for all closed issues.
C22_Witness ==
    /\ gh_pc = "returned"
    /\ \E i \in 1..gh_idx : gh_items[i].kind = "next_repo"
    /\ \E l \in DOMAIN counter :
          0 < counter[l][5] /\ counter[l][5] < counter[l][3]

-----------------------------------------------------------------------------
(* Claims about assigned_stale_issues, checked under SpecStale *)

\* The index of the repository whose response holds the item at position j.
RepoOf(j) == 1 + Cardinality({k \in 1..j : st_items[k].kind = "next_repo"})

\* The item at position j is an issue without update in the 24 hours
\* before asof.
NotUpdatedInLastDay(j) ==
    /\ st_items[j].kind = "node"
    /\ Instant(ParseFromRfc3339(st_items[j].updated_at)) <= asof - DayHours

\* The issues among the first k items that had no update in the 24 hours
\* before asof, in the order of the items.
RECURSIVE StaleAmong(_)
StaleAmong(k) ==
    IF k = 0 THEN <<>>
    ELSE IF NotUpdatedInLastDay(k)
    THEN Append(StaleAmong(k - 1),
                [title     |-> st_items[k].title,
                 number    |-> st_items[k].number,
                 repo      |-> RepoOf(k),
                 assignees |-> Logins(st_items[k].assignees)])
    ELSE StaleAmong(k - 1)

\* C17: assigned_stale_issues returns exactly the issues of the responses
\* with updated_at <= asof - 1 day, in the order of the repositories and of
\* the responses.
C17_StaleIssuesExactlyOld ==
    st_pc \in {"loop", "returned"} => st_issues = StaleAmong(st_idx)

\* The first repository's issue was updated 12 hours before asof and is left
\* out; the second repository's issue was updated exactly 24 hours before
\* asof, at another UTC offset, and is returned.
C17_Witness ==
    /\ st_pc = "returned"
    /\ Len(st_items) = 3
    /\ st_items[1].kind = "node"
    /\ st_items[2].kind = "next_repo"
    /\ Len(st_issues) = 1
    /\ st_issues[1].number = 2
    /\ st_issues[1].repo = 2


-----------------------------------------------------------------------------
(* Claims about merged_pull_requests_per_login, checked under SpecPulls *)

\* The consumed positions that hold a pull request.
PullsListed == {i \in 1..pr_idx : pr_items[i].kind = "node"}

\* Positions i <= j lie in the response of one repository.
SameResponse(i, j) == \A k \in i..j : pr_items[k].kind \in {"node", "null"}

\* Every repository's pull requests are listed newest first by creation
\* time.
PullsNewestFirst ==
    /\ \A i \in PullsListed : ParseFromRfc3339(pr_items[i].created_at).ok
    /\ \A i, j \in PullsListed :
          (i < j /\ SameResponse(i, j)) =>
              Instant(ParseFromRfc3339(pr_items[i].created_at))
                  >= Instant(ParseFromRfc3339(pr_items[j].created_at))

\* The listed pull requests that login authored with created_at >= since.
PullsAuthoredSince(login) ==
    {i \in PullsListed :
        /\ pr_items[i].author = login
        /\ ParseFromRfc3339(pr_items[i].created_at).ok
        /\ Instant(ParseFromRfc3339(pr_items[i].created_at)) >= since}

RECURSIVE CommentsOf(_)
\* The sum of the comment counts of the pull requests at the positions in S.
CommentsOf(S) ==
    IF S = {} THEN 0
    ELSE LET i == CHOOSE k \in S : TRUE
         IN  pr_items[i].total_count + CommentsOf(S \ {i})

PullLogins == {"x", "y", "null"}

\* C21: when every repository's merged pull requests are listed newest first
\* by creation time, each login's count is the number of listed pull requests
\* it authored with created_at >= since and its comment total is the sum of
\* their comment counts; whatever the order, no pull request created before
\* since is counted, and a pull request without an author is counted for no
\* login.
C21_PullsPerLogin ==
    pr_pc \in {"loop", "returned"} =>
        /\ "null" \notin DOMAIN prs
        /\ \A l \in DOMAIN prs :
              /\ prs[l][1] <= Cardinality(PullsAuthoredSince(l))
              /\ prs[l][2] <= CommentsOf(PullsAuthoredSince(l))
        /\ PullsNewestFirst =>
              /\ DOMAIN prs = {l \in PullLogins \ {"null"} : PullsAuthoredSince(l) # {}}
              /\ \A l \in DOMAIN prs :
                    prs[l] = <<Cardinality(PullsAuthoredSince(l)),
                               CommentsOf(PullsAuthoredSince(l))>>

\* A sorted list was read to its end: a login was counted twice, and the
\* loop was left at an authored pull request created before since.
C21_Witness ==
    /\ pr_pc = "returned"
    /\ PullsNewestFirst
    /\ \E l \in DOMAIN prs : prs[l][1] >= 2 /\ prs[l][2] >= 3
    /\ \E i \in PullsListed :
          /\ pr_items[i].author # "null"
          /\ Instant(ParseFromRfc3339(pr_items[i].created_at)) < since


-----------------------------------------------------------------------------
(* Claims about stale_issues, checked under SpecStaleIssues *)

\* C23: every issue stale_issues returns has an assignee, does not carry the
\* label `blocked`, was not updated in the last 24 hours, and has its
\* project_id among the keys of `projects` when stale_issues returns Ok;
\* hence rendering the section never fails on a missing project or a missing
\* assignee.
C23_StaleIssuesRenderable ==
    /\ sl_pc \in {"returned", "rendered", "done", "panicked"} =>
          \A i \in 1..Len(sl_stale) :
              /\ assignee_username(sl_stale[i]).some
              /\ "blocked" \notin sl_stale[i].labels
              /\ sl_stale[i].updated_at <= now - DayHours
              /\ sl_stale[i].project_id \in projects
    /\ sl_pc # "panicked"

\* An issue updated exactly a day ago was returned and rendered, and another
\* issue of the list was left out.
C23_Witness ==
    /\ sl_pc = "rendered"
    /\ Len(sl_stale) >= 1
    /\ Len(sl_issues) > Len(sl_stale)
    /\ \E i \in 1..Len(sl_stale) : sl_stale[i].updated_at = now - DayHours


-----------------------------------------------------------------------------
(* Claims about issue_due_cmp, checked under SpecDue *)

\* Ordering::reverse
Reverse(o) == IF o = "Less" THEN "Greater" ELSE IF o = "Greater" THEN "Less" ELSE o

\* The issue has a due date of its own or its milestone has one.
HasEffectiveDue(issue) ==
    \/ issue.due_date.some
    \/ issue.milestone.some /\ issue.milestone.v.due_date.some

\* The effective due date: the issue's own, else its milestone's.
EffectiveDue(issue) ==
    IF issue.due_date.some THEN issue.due_date.v
    ELSE issue.milestone.v.due_date.v

\* The order the claim describes.
DescribedOrder(a, b) ==
    IF HasEffectiveDue(a) /\ ~HasEffectiveDue(b) THEN "Less"
    ELSE IF ~HasEffectiveDue(a) /\ HasEffectiveDue(b) THEN "Greater"
    ELSE IF HasEffectiveDue(a) /\ EffectiveDue(a) # EffectiveDue(b)
    THEN Cmp(EffectiveDue(a), EffectiveDue(b))
    ELSE Cmp(a.updated_at, b.updated_at)

\* C24: issue_due_cmp is a consistent ordering usable for sorting: it is
\* antisymmetric and transitive over the issues compared; an issue with an
\* effective due date (its own, else its milestone's) orders before every
\* issue without one, two issues with due dates order by date and then by
\* updated_at, two issues without due dates order by updated_at; and the
\* sorted list is a rearrangement of the issues in which no issue orders
\* after a later one.
C24_DueOrderConsistent ==
    /\ due_pc \in {"sort", "done"} =>
          LET n == Len(due_issues)
          IN  /\ \A i, j \in 1..n :
                    /\ due_order[i][j] = Reverse(due_order[j][i])
                    /\ due_order[i][j] = DescribedOrder(due_issues[i], due_issues[j])
              /\ \A i, j, k \in 1..n :
                    /\ (due_order[i][j] # "Greater" /\ due_order[j][k] # "Greater")
                          => due_order[i][k] # "Greater"
                    /\ (due_order[i][j] = "Less" /\ due_order[j][k] # "Greater")
                          => due_order[i][k] = "Less"
                    /\ (due_order[i][j] # "Greater" /\ due_order[j][k] = "Less")
                          => due_order[i][k] = "Less"
    /\ due_pc = "done" =>
          /\ Len(due_sorted) = Len(due_issues)
          /\ \A x \in DueIssues :
                Cardinality({i \in 1..Len(due_sorted) : due_sorted[i] = x})
                    = Cardinality({i \in 1..Len(due_issues) : due_issues[i] = x})
          /\ \A i, j \in 1..Len(due_sorted) :
                i < j => issue_due_cmp(due_sorted[i], due_sorted[j]) # "Greater"

\* Three issues were compared and sorted: one whose due date is its
\* milestone's ordered before one without a due date that came first in the
\* list, and two distinct issues compared Equal.
C24_Witness ==
    /\ due_pc = "done"
    /\ Len(due_issues) = 3
    /\ due_sorted # due_issues
    /\ \E i, j \in 1..3 :
          /\ i < j
          /\ ~HasEffectiveDue(due_issues[i])
          /\ ~due_issues[j].due_date.some
          /\ due_order[j][i] = "Less"
    /\ \E i, j \in 1..3 :
          due_issues[i] # due_issues[j] /\ due_order[i][j] = "Equal"

====
